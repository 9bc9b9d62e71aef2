# timeshare in TLA+

`timeshare` lets scripts read secrets from 1Password without a prompt per
read. A command-line client (`timeshare read`, `run`, `lock`, ...) talks over a
unix socket to one daemon per user (`timesharedd`), which caches resolved
secrets in memory for a TTL. This directory specifies that system, checks it
with TLC and proves its main properties with TLAPS.

## Inventory

| Part | Source | State | Operations | Interacts through |
|---|---|---|---|---|
| Request handling | `internal/daemon/server.go`, `protocol.go` | per connection: request, fetched value, response | accept, verify peer, read, lock / status / read, write | the cache (shared), the backend (call), the client (one message each way) |
| Cache | `internal/cache/cache.go` | map from key to value and expiry, under a mutex | `Get` (deletes what is expired), `Set`, `Evict` by prefix | called by all handlers at once |
| Backends | `internal/daemon/dispatch.go`, `internal/backend` | none | `Resolve` by mode | `op` executable or 1Password SDK, the token store |
| Accept loop | `server.go` `Serve` | accept goroutine, two channels, idle timer | accept, hand over, give up when idle | listener, handlers, end of process |
| Startup and socket | `cmd/timesharedd/main.go` | flock, socket file | lock, unlink, bind, listen, chmod, exit | the file system, shared with clients and rival daemons |
| Client dial | `internal/client/client.go` | none that lasts | dial, unlink, spawn, poll; `PingSocket` | the socket file, daemon processes |
| Peer check | `internal/peercred` | none | compare user ids | handler |
| SSH agent proxy | `internal/sshagent` | deadline, allowed fingerprints, connections | list, sign, refuse | upstream agent, wrapped command |
| `run` | `internal/cli/run.go` | environment, proxy, child | read all items, start proxy, run, clean up | daemon, proxy, child |
| `read`, `lock`, `status`, project id | `internal/cli`, `internal/projectid` | none | build a request from the configuration | configuration, client |
| Configuration | `internal/config` | `.timeshare.yml` | `Load`, `Write`, `Allows`, `FieldFor` | all commands |
| `init` and its wizard | `internal/cli/init.go`, `wizard*.go`, `internal/onepassword/cli_ops.go` | wizard state, vaults, items | create vault, copy or move items, write the file | `op`, configuration |
| Pickers | `internal/cli/pick.go`, `fzflist.go` | filter, rows, cursor, checked map | key presses, search results | `init`, wizard |
| Suggestions | `internal/onepassword/fuzzy.go` | none | rank names by distance | `init`, ssh keys of `run` |
| Token store | `internal/tokenstore`, `internal/cli/token.go` | keychain, the daemon's environment | store, delete, look up | service-account backend |
| Doctor | `internal/cli/doctor.go` | none | probe `op`, daemon, agent; look up items and keys | configuration, 1Password, daemon socket |
| Rendering, version, installer | `internal/cli/theme.go`, `install.sh`, ... | none | print | - |

What is hard in this code is concurrency and time rather than data:

- handlers run in parallel and hold no lock between the cache look-up, the
  backend call (which may take minutes or for ever, while a person looks at a
  prompt) and the store;
- `lock` runs beside reads that are half done;
- entries expire by a clock that has two readings, of which one stops while
  the machine sleeps;
- the accept loop selects among a connection, an error and a timer;
- searches of a picker come back late and in any order;
- commands meet a world that changes between them, while the daemon keeps the
  environment and the values of an earlier one;
- clients unlink the socket file and spawn daemons while other clients and
  other daemons do the same, any of them may die at any point, and what is
  left over must not stop the next one.

What makes each part correct:

- requests and cache: a project is served its own secrets only; the window a
  read opens lasts as configured; `lock` empties it; one hanging backend call
  holds up nobody else;
- accept loop: it gives up only when nothing came for the whole timeout, and
  then does; no connection is lost before;
- agent proxy and `run`: allow-listed keys only, nothing let through past the
  deadline, one stuck client holds up nobody, everything or no command, nothing
  left behind;
- `init`: no item lost whichever `op` call fails, originals stay put unless
  `--move` says otherwise, the file tells what was done;
- pickers: what comes back is what was marked or completed;
- the commands together: a `doctor` without complaints leaves `run` little to
  fail at, `read` after `run` gives the same without a prompt, and the hints for
  a mistyped key are the best there are;
- startup and dial: one daemon, one cache, no socket stolen, every command
  ends, and a command ends connected after any crash.

The hazards are listed one by one in `PROJECT.json`.

## Modules

### `Daemon`: handlers, cache and backend

One slot per open connection. `pc[c]` says where its handler is:

    idle --Accept--> open --Receive--> resolve --Miss--> backend
         --BackendResolves--> store --Store--> reply --Reply--> idle

`resolve` also leads to `reply` by `Lock`, `Status`, `Deny` and `Hit`,
`backend` by `BackendFails`, and `open` by `RefusePeer`. A handler touches
shared state only inside `Cache.Get`, `Set` and `Evict`, which hold the cache
mutex, so each of these is one action; everything else between two of them is
local and is put into the same action. `req`, `got` and `resp` are the
handler's local variables. `cache` is the map (`Nothing` where it has no
entry). `clock` holds the two readings of `time.Now`: `Tick` advances both,
`Sleep` the wall clock alone. `Restart` is the end of the process and the start
of the next one.

A secret is represented by the reference it was read from, `[vault, name,
field]`, so "whose value is this" can be asked of every value. The cache key is
a string, project, name and field with NUL between them; it is modelled as a
record, which is the same as long as none of the parts has a NUL in it (the
project id is a hash or path, and item titles come from YAML). The requests are
a constant; `MCDaemon` takes those that `read`, `run` and `lock` build from the
`.timeshare.yml` of two projects, with the operators of `ProjectConfig`, and adds
two that a client could send and no command does: for an item that is not
listed (`server_test.go` has such a request), and `OpStatus`, which only
`server_test.go` sends, since `timeshare status` probes the socket.

`promise`, `preLock` and `survivors` are history variables. They record until
when the configured TTL promises a key to be warm, which handlers hold a value
fetched before a lock, and which cached values were.

### `SecretWindow`: what the daemon promises

One memory of secrets in which each has a window, and clients that are away,
have asked, are prompting or are told. A person is prompted only for what is not
remembered; what was read is remembered for its project's TTL, not longer and
not shorter; it is forgotten early only by a lock of its own project or by the
end of the daemon. `Daemon!Implements` maps onto it: the memory is what is live
in the cache (on the clock that the code's comparison uses), a client is
prompting while its handler is between the miss and `Cache.Set`, and a value is
always the one 1Password holds for the key's own request. The real cache keeps
expired entries until the next `Get` and fetches long before it stores; none of
that can be told from outside. `Learn` needs nothing of the memory, so the
refinement admits two prompts for one key and a store after a lock, as the code
does.

### `ProjectConfig`: `.timeshare.yml` and the requests

Operators without state: what `Load` accepts, `Allows`, `FieldFor`, `ItemNames`,
`FindGitRoot`, and the requests of `read`, `run` and `lock`. `MCDaemon` and
`CommandLine` use it. A parsed file is a record; a file YAML cannot parse, a
ttl that is no duration and a missing file are `Nothing`. For an entry of `items:`
that is null, yaml.v3 does not call `UnmarshalYAML`: it loads, as an item without a
name (`EntryOK`).

### `CommandLine`: the commands one after the other

`read`, `run`, `lock`, `status`, `doctor`, `token store` and `token delete` in the
world they share: `file` (the `.timeshare.yml` of every repository), `held` (the
items of every vault), `keychain`, `shell` (what the user's shells export), `op`,
`agent`, and the daemon with the environment it was spawned with and its cache
(`memory`). A command is one action, because what commands do to each other while
they run is the matter of `Daemon`, `Lifecycle` and `RunCommand`; between two of
them files are edited, items come and go, variables are exported, `op` and the
agent disappear and return, entries expire and the daemon ends. `Stops` and `Sent`
are the loop over a command's requests, each answered from the cache or by the
backend, the first error ending it. `Refusal` names the reasons the backend has,
`KeyFailures` those of `startSSHProxy`, in the code's order. Strings are sequences
of characters, because `envVarName`, the split of `<vault>/<item>` and the
suggestions look into them; the characters are one byte long.

`last` is what the last command printed; `clean` and `given` are history: whose
`doctor` found nothing, and what the last successful `run` handed to its command.

### `Suggestions`: "did you mean"

`SuggestMatches` as the set of lists it may return (`sort.Slice` leaves the order
of equals open), with the two rolling rows of `levenshtein` as `NextRow`. `Within`
is the reference it is checked against: the strings that so many single edits
lead to, which knows nothing of rows.

### `Picker`: the fzf-style list

`Update` gets one key or message at a time. Typing starts a search whose result
arrives later (`pending`, `Results`, in any order); tab completes the filter and
searches at once. `cursor` past the `rows` highlights nothing, which happens when a
result has fewer rows (the library clamps it on most paths, which is left open:
the cursor does not move down). `checked` is the code's map, where an item
toggled off stays as false. `Chosen` is what `runFzfList` returns, as a set: with
checkboxes the order is that of the list. `requireOne` is left out, since no caller of
`runFzfList` sets it, and with it the refusal of an empty selection. `marked` and `tabbed` are history. Which
rows a text matches is a constant; `FoundAssumption` says that a label, which in
`pick.go` ends in the item's ID and so is no other's, is matched by its own row best.

### `ServeLoop`: the accept loop

The kernel's queue (`backlog`), the connection in the accept goroutine's hand
(`held`, blocked on the unbuffered channel), the handlers (`serving`), the
error channel and the idle timer as a countdown. `Receive`, `ReturnError` and
`ReturnIdle` are the three cases of the `select`; when more than one is ready
any is taken. `Exit` is what `main` does with either return: it ends the
process and all its connections.

### `Lifecycle`: dial, spawn, startup, end

`path` is what is at the socket path: nothing, the socket of a process, or the
file a process left. `proc[d]` follows `main.go` from `started` through the
flock, the unlink, bind, listen and chmod to `serving`. `cl[c]` follows
`Client.dial`. `EndProcess` is what the kernel does when a process is gone, be
it `os.Exit`, `log.Fatalf` or a signal: the flock is released, connected
clients read end of file, the file stays and is stale. `Spawner` are the clients
with a `DaemonBinary`; the others are `PingSocket` (`status`, `doctor`).

With `Healthy = TRUE` processes are prompt: a spawn leads to a daemon, or to
its exit, within the two seconds a client polls, and no daemon dies while a
client waits for it. Without that assumption no client could be promised to
get through.

`OneDaemon` is what all this is for: at most one daemon, and clients that come
to talk to it and to no other. `Lifecycle!Implements` maps onto it: the daemon
is the holder of the flock, the sessions are the connected clients' (`peer`),
and every step of flock, socket and dial is a step of it or none.

### `AgentProxy` and `Grant`: the filtering ssh agent

One slot per connection, `pc[c]` from `queued` (in the listener's queue) over
`ready`, `asked`, `wait` (past the guard, waiting for the mutex of the one
upstream `agent.Client`), `call` (with the upstream agent) to `reply`. `left` is
the time to the deadline. `Permits` is the code's `guard` and the same test in
`List`; `Pass` and `Refuse` are the two outcomes. The guard looks at the clock
when a request arrives, and the request goes upstream when the mutex is free
(`Call`): the two are separate actions, and the deadline can fall between them.
`Silent` clients need not read their answers.

`AcceptFails` is any error of `Accept`: `Serve` returns (`proxy.go:126`), `run`
ignores what it returns (`run.go:157`), and the listener stays bound with nobody
behind it (`deserted`); connections are queued there until `run` closes it.
`UpstreamHangs` is an upstream agent that takes requests and answers none. Answers
of the agent protocol name no request: `UpstreamAnswers` gives whoever reads one
the answer to any request that is with the agent, so that only the mutex keeps
them apart.

`Grant` is what the proxy promises: a connection is permitted something only
before the deadline, to list or with a granted key; it may then use the upstream
agent for that, once, one connection at a time. `Implements` says that the proxy is
a `Grant`, where the permit is the guard's yes and the use is from `Call` to the
answer. It does not say that a use begins before the deadline, since the code does
not keep that: `ForwardsInTime` is the package comment's sentence, and the run
`proxy_late` shows it violated.

The proxy has its beginning and end in `run`, so its specification is
`RunCommand`'s.

### `RunCommand`: `timeshare run`, around `AgentProxy`

It extends `AgentProxy` and adds `RunE`: `phase` goes from `read` over
`resolve`, `listen`, `chmod`, `start` and `wait` to `cleanup` and its three
steps, with a failing variant of each step that can fail. All actions of the
proxy run in between. `EndOfProcess` is what the kernel does at the end:
everything closes, a file stays. `Killed` is a signal to `timeshare run` itself,
which handles none. `AllOrNothing` says of the proxy's socket that the command can
connect to it for as long as it runs, not that somebody accepts: after a failed
`Accept` nobody does.

### `ProjectInit`: `init`, wizard, menu

`place[v][i]` counts how often vault `v` has item `i`, `made` the vaults of the
dedicated vault's name (1Password allows several), `file` is `.timeshare.yml`.
`step` follows one command: flags, or wizard or menu, then `validateComplete`,
`createVault`, the transfers of `--from-vault`, of each `--from-item` and of the
menu, and the write. Every `op` call may fail (`OpFails`, `AddFails`, `Cancel`), with
its effect or without: an error can be one of reading the answer to what `op` did
(`HalfDone`). A failed transfer can have made the copy, and a failed move the copy with
or without the removal of the original; `op` is assumed not to remove an original that
it has not copied.
`Save` is `os.WriteFile`, which truncates first: a failed write can leave a file
that is none. `Asked` is what a question of the wizard can come back with, which is
only asked where no flag answered it. The menu gets nothing of the flags, so that
what it adds is copied (`wizard_summary.go:74`): its state is `Blank`. `InOrder` lists
a set in the order of the vault's own list, as the pickers do. `InputsAssumption`
says that a flag which was not passed has no value. `cmd` is history: what was asked
for and what was reported done, for the properties. `OriginalsStay` says that originals
stay where `--move` was not passed, that a script's `--move` takes away the originals
of what was reported moved, and that no item is ever in no vault. It says nothing of
`--move` in the wizard and the menu, which forget it (see below).

### Proof modules

`DaemonProofs`, `ServeLoopProofs`, `LifecycleProofs`, `RunCommandProofs` (for
`AgentProxy` too), `PickerProofs`, `ProjectInitProofs`, `CommandLineProofs`
and `SuggestionsProofs` have the theorems about their components; see below.

## Runs

| Run | Question | Bounds |
|---|---|---|
| `daemon_shared` | isolation, windows, locks, `SecretWindow` is implemented, and a hanging backend call holds up nobody | 2 handlers, one of whose backend calls need not return; 2 projects with one item name, a field override, a disallowed request, lock and status; clocks to 2 |
| `serve_idle` | idle exit, admission, no connection lost | 3 clients, timeout of 2 ticks |
| `life_chaos` | one daemon, one cache, dial ends, `OneDaemon` is implemented | 2 spawning clients, 3 processes, crashes anywhere, no bound on their number |
| `life_recovery` | recovery with one spawning client | 1 spawning, 2 looking clients, 2 processes |
| `run_ends` | keys, deadline, `Grant` is implemented, nobody starved by a client that does not read; everything or no command, nothing left, cleanup is not held up | 2 connections of unbounded clients, one of which need not read; one granted and one other key, 2 ticks, up to 2 items, with and without keys; `Accept` may fail and the upstream agent hang or close at any time |
| `init_steps` | no item lost though a failed `op` call may have had its effect, originals stay unless `--move` is passed, file and world agree, no overwriting | 2 items, 7 command lines, any number of commands one after the other, up to 2 vaults of the name |
| `picker_keys` | marks, and tab then enter, under late search results | 3 rows; 7 filter texts that match none, one, two or three rows in different orders; 2 searches under way |
| `commands` | a clean `doctor` against `run`, `run` against `read`, the hints | 1 repository, 3 directories, 2 vaults whose names share a variable, 5 items, 13 files (both modes, a field, a name listed twice, a null entry, three that do not load, mistyped keys), 2 changes to the world between commands |

Why these bounds are enough to be interesting: every pairwise race of handlers
needs two of them. A TTL of 1 or 2
against a clock that goes to 2 lets entries be stored, be served, expire and be
stored again at different times. Two projects that share an item name, and one
item read with and without a field, are all the ways keys can nearly collide.
Process and client slots are reused, so there is no bound on the number of
invocations, spawns or crashes; three processes let two rivals start while a
third is serving. For the agent proxy, two connections are one that holds the
upstream client's mutex and one that waits for it; slots are reused, so there is
no bound on clients or requests, and a tick of the deadline can fall between any
two steps. Two items are enough for one transfer to succeed and the next to fail,
and two vaults for the ambiguity that a second `init` makes; `MaxVaults` and
`MaxCopies` only stop `CreateVault` and `Transfer`, both of which may fail in any
case. In the picker, two searches under way are what it takes for an older one to
arrive after a newer one, and three rows let the rows shrink under a cursor that
has passed them. For the commands, two changes are one before and one after a
command that made something warm or clean (a token stored and then an item gone;
a file edited and then a variable exported); commands, expiry and the end of the
daemon are not counted and come in any number.

Theorems remove the bounds for every safety property in this table.

Some properties are known not to hold; a run shows each, against the sentence
that says otherwise:

| Run | What the code does |
|---|---|
| `daemon_lockrace` | A read between the backend and `Cache.Set` puts the secret back after `timeshare lock`, for a whole TTL. (`OnlyInFlightSurvivesLock` says this is the only way.) |
| `daemon_suspend` | Both times compared in `Cache.Get` carry Go's monotonic reading, so time asleep does not count and an entry outlives its wall-clock TTL. `cache_test.go` does not see it: its `time.Date` values have no monotonic reading. |
| `life_race` | `Client.dial` unlinks the path some time after it was refused; by then the file can belong to a daemon another client has spawned. That daemon serves on without a name, holding the flock so that no other can start, or dies at chmod. |
| `proxy_late` | `SignWithFlags`, `Sign` and `List` look at the deadline before they wait for the upstream client's mutex, which another connection may hold for as long as its prompt is open; what passed is forwarded afterwards, be it past the deadline. `proxy.go:3` and `src/README.md:186` say "only before a fixed deadline" and "only within the repo's TTL window". (`Grant` says what holds instead.) |

More disagreements were seen in the same models and have no run of their own:

- the cache key has no vault: after `vault:` is edited, the old vault's value is
  served until it expires (`Isolation` asks for a vault that some request of the
  project names, which is what the code keeps);
- two cold reads of one key both reach 1Password (nothing joins two `Miss`es);
- `Serve` can return `ErrIdleTimeout` with an accepted connection in the accept
  goroutine's hand (`ReturnIdle` with `held # None`); its client reads end of
  file;
- the first error of `Accept`, a passing one like "too many open files" included,
  ends the agent proxy while the command runs on with a socket nobody serves
  (`AcceptFails`; `proxy.go:126` and `run.go:157`; `Serve`'s comment at
  `proxy.go:117` is about errors of the listener's end only);
- "so one slow or stuck client can't block another" (`proxy.go:121`) does not reach to
  requests that are with an upstream agent which does not answer: they hold the
  one mutex (`UpstreamHangs`, excepted in `Answered`);
- a null entry of `items:` loads as an item without a name, though `item.go` means
  to refuse an item without one (`EntryOK`); `run` then fails to read it;
- a signal that ends `run` leaves the proxy's socket file
  (`Killed`; `NothingLeft` is about every other end);
- an item that `--item` names in an existing vault is ambiguous once `init` has
  made a second vault of that name;
- with `--non-interactive`, a `--from-item` without a slash opens the picker
  (`ProjectInit!NextSpec`; `init.go:130` against `init.go:219`, "never prompt");
- `runWizard` copies the flags' state without `Move`, so `init --move` through the
  wizard copies (`Wizard`; `wizard.go:88` against `wizard.go:34`);
- in the picker, a search that was under way at a tab replaces the rows after it,
  and enter confirms another row than the completed one (`Results` after `Tab`;
  `fzflist.go:114` says "so enter immediately confirms it", and `TabThenEnter`
  excepts this); a cursor past the rows returns nothing although rows match;
- the daemon looks `TIMESHARE_SA_TOKEN_*` up in its own environment, that of the
  client which spawned it: an export made later does nothing until the daemon is
  gone (`Spawned`; `src/README.md:242` says the variable wins);
- vaults whose names differ in punctuation or case only share one variable
  (`EnvName`; the comment at `tokenstore.go:43` says so);
- where `items:` lists a name twice with different fields, `run` reads both and
  the last one wins in the environment, while `read` takes the first (`OneField`
  in `Run` excepts such names from `WarmAfterRun`);
- `read --ttl` "for this invocation" is the TTL of the cache entry it makes, and
  is ignored when the entry is there;
- the lists of `doctor`'s checks at `src/README.md:214` and `src/README.md:267` lag behind
  the code, which looks items and keys up too; it does not look at the items'
  fields or the token, with which a `run` can fail after a clean `doctor`
  (`CleanDoctorRuns` names these);
- `src/README.md:275` says `read` and `run` resolve the password field only; a `field:`
  is read instead (`FieldFor`);
- "an exact case-insensitive substring match always outranks a typo-tolerant" one
  (`fuzzy.go:9`) is so for titles of up to 1000 characters only (`Score`;
  `fuzzy.go:26` has the 1000, and `HintsAreBest` the hypothesis);
- `init` writes a mode that `Load` rejects (`WizardLoads` is about the ways of
  writing where that cannot happen).

## Fairness

- `Daemon`: every handler that can take its next step takes it (goroutines are
  scheduled, the cache mutex is held briefly), and a backend call returns,
  except for the connections in `Stuck`. Clients need not send anything.
- `ServeLoop`: the accept goroutine and the loop are scheduled and time passes.
  Handlers need not finish. Nothing is assumed of `select` but that it takes
  one ready case.
- `Lifecycle`: clients and starting daemons run, and the two seconds of polling
  pass. Nobody has to run a command, and no daemon has to stop.
- `RunCommand` with `AgentProxy`: `RunE` and the proxy's goroutines are scheduled;
  the upstream client's mutex is fair to waiters (strong fairness of `Call`; Go's
  mutex hands over to a starved waiter); the upstream agent answers in the end
  unless it hangs; clients not in `Silent` read their answers or leave; time
  passes. The command need not end, no `Accept` need fail, and no signal need come.
  A prompt of the upstream agent may take as long as it likes; while it does, other
  connections do wait, since there is one client for all of them. `RunEnds` needs
  nothing of the upstream agent or of clients: cleanup waits for neither.
- `ProjectInit`, `Picker` and `CommandLine` have no liveness property: a person may
  stay at a prompt, or not run a command.

## Proofs

`DaemonProofs` proves, for any number of connections, any set of requests and
any TTLs, assuming only what the named `ASSUME`s of `Daemon` say (requests are
records of the right type, `Nothing` is not a value, default TTLs are natural
numbers):

- `TypeCorrect`: `TypeOK`, which includes that only an allowed read gets past
  `resolve`.
- `ServesOnlyItsOwn`: `Isolation`. It is not inductive: a response is copied
  from the cache or from what was fetched, so the invariant `Provenance` says
  of every value, in the cache, in a handler and in a response, that it is what
  a read of its key may be answered with. The key keeps project, name and field,
  which is what makes that preserved by `Store` and `Hit`.
- `StaysWarm`: `WarmWindow`. The strengthening, `Windows`, adds that the entry
  outlives the promise, not merely that it is live now (else `Tick` would break
  it), and that no promise reaches further than a store made now would (else a
  later `Store` could shorten the window). The second is where the requests'
  agreement on the TTL is needed.
- `LockEvictsAll`: `OnlyInFlightSurvivesLock`, and `NoForeignEviction`:
  `EntriesLeaveForAReason` (an entry goes by expiry, a lock of its project or the
  daemon's end), from the types and the actions.
- `KeepsTheWindow`: `Implements`, the refinement of `SecretWindow`. It needs a
  step invariant of its own, `FetchExact`: what a handler has fetched is the
  value of its own request. `Isolation` is weaker, since it allows the value of
  any request with the same key. One lemma per action says which step of
  `SecretWindow` it is, or that it is none.

`ServeLoopProofs` proves `GivesUpOnlyWhenQuiet` for every timeout in `Nat` and any
set of clients. `IdleExitAfterQuiet` speaks of the moment of return only; the
strengthening `Countdown` says that where there is a timer, the time it has been
quiet and what is left on the timer add up to the timeout at least.
`KeepsEveryConnection` proves `TypeOK`, whose `OnePlace` says that a connection is in
the backlog, in the accept goroutine's hand, with a handler or lost, in one of
these only and once; `PlaceKept` has the argument about the queue.

`LifecycleProofs` proves, for any sets of processes and clients, `SocketIsHolders`
(`OneDaemonHoldsSocket`), `NeverTwoCaches` (`OneCache`) and `BehavesAsOne` (the
refinement of `OneDaemon`). The inductive invariant is `TypeOK`,
`OneDaemonHoldsSocket` and `Sessions`, which says that a client that is
connected is so to the holder of the flock, which listens; connections outlive
the socket file, so this does not follow from what is at the path. `TypeCorrect`
states `TypeOK` by itself.

Two more theorems have a hypothesis, `OneSpawner`: no start takes two seconds
(`Healthy`) and at most one client spawns; how many others look, how many processes
there may be and how often a daemon ends is free. `RecoversAlone` then states
`RecoveryReliable` and `ServesReachably` states `LiveDaemonReachable`. The hypothesis is
needed: with two spawners the run `life_race` shows the first violated. The invariant
is `OneProcess` (at most one process is not `off`, and a bound socket is at the path)
with `Attended`, which ties that process to the spawner: none exists between a failed
dial and the spawn, so the unlink meets nobody's socket; one exists for as long as the
spawner polls, so the poll cannot end with every process off; and a process that does
not serve yet is one the spawner waits for, so none is there when it dials next.

`RunCommandProofs` proves the safety of `run` with the proxy in it, for any list of
items, any connections, keys and TTL. The invariant has the proxy's part, `IInv`:
`Permitted` says that whatever is past the guard is a list or a signature with an
allowed key, and `OneCall` that at most one request is with the upstream agent, which
is what makes the answer that is read the one to this request (`AnswerTo`).
`OnlyAllowed`, which speaks of answers, is not inductive without them. `IInv` holds
through all of `run` because `run`'s own steps end requests and neither ask nor answer
any (`RunStepFrame`, `ProxyKept`). On top of it are `Progress` (what has been read, and
with what the command was started) and `Resources` (what is open in which phase);
neither `AllOrNothing` nor `NothingLeft` says anything before a command runs or after
`run` ends, so neither is inductive alone. From these follow `RunTypeCorrect`
(`RunTypeOK`), `RunsWithEverything` (`AllOrNothing`), `LeavesNothing` (`NothingLeft`),
`RunShowsOnlyAllowed` (`OnlyAllowed`) and `RunKeepsTheGrant` (`Implements`). For the
last, `GuardPermits`, `CallBegins` and `GrantEndsFor` say which steps of `Grant` the
proxy's steps are; that uses exclude each other is again `OneCall`.

`PickerProofs` proves the three properties of `Picker` for every list of rows, every
matching that `FoundAssumption` allows and any number of searches under way.
`MapTellsMarks` is the invariant for `MarksStay` (`ChosenAsMarked`): the map says true of
what is marked, in every state and not only at the end. `Completed` is the one for
`EnterTakesCompleted` (`TabThenEnter`): while `tabbed` is set the completed row is the
first and highlighted, and no search is under way that could replace the rows.
`TypeCorrect` states `TypeOK`.

`ProjectInitProofs` proves the five properties of `ProjectInit` for all items, titles and
command lines and any number of vaults. `Control` says which kind of command can be
at which step; `Collected`, for `FileIsTrue` (`FileTells`), that what is going to be
written is what was there and what has been transferred up to this step; `Moves`, for
`NoItemIsLost` (`OriginalsStay`), that the state says "move" only in a script with `--move`,
with `HalfDoneKeeps` for the calls that fail half done;
`Forces`, for `FileStays` (`NeverOverwrites`), that past the check there is no file, or
`--force`; `Enough` and `AddKeeps`, for `WrittenFileLoads` (`WizardLoads`), that at every
step something to list is either collected or still queued.

`CommandLineProofs` proves `DoctorSaves` (`CleanDoctorRuns`), `ReadAgreesWithRun`
(`WarmAfterRun`) and `TypeCorrect` (`TypeOK`) for every tree of directories that ends
upwards (`ParentAssumption`), all files over names of which one is empty
(`NamesAssumption`), and any number of changes. For the first the
invariant `DoctorSaw` says that a project that is clean still passes all that
`doctor` looks at but the daemon, which `run` spawns; `RefusedAfterDoctor` and
`KeyAfterDoctor` show that the reasons left are those `doctor` does not look at. For the
second, `RunKept` says that what was given is in the cache under the key that `read`
builds: no request replaces an entry that is there (`SentIs`), and whatever removes
one also takes back the promise. `RunGivesAll` adds what no run checks, that a
successful `run` does make that promise for every item which the file lists with one
field (`FilledAll`).

`HintsAreBest` states `SuggestsBest`, if no title is longer than 1000 characters
(`ShortTitles`). `FiniteVaults` and `HintsListed` are its invariant: vaults stay finite,
and the hints are a list that `SuggestMatches` may return for the vault's items
(`RunHints`; every other command takes the hints back). `ListedIsBest` goes from scores
to what `SuggestsBest` speaks of, the edits. The hypothesis is needed, and 1000 is the
highest bound with which it is true: the score of a title with the query in it is
its length less 1000, that of another title its distance, which is at least 1 (`Apart`),
so that from 1001 characters on the two can be equal, and then in the wrong order.
New assumptions say that titles and `ssh_keys` are strings over the characters that
have a lower case, and that the vaults start finite.

`SuggestionsProofs` proves `LevenshteinIsDistance`, which that rests on, for any two
strings over any characters: one can be made of the other with n single edits, of its
own characters, just if `Levenshtein` is at most n. The rows are a table of the
distances of all prefixes (`IsTable`), in which every cell is made from the cheapest
of its three neighbours (`TableExists`, `Cell`). Downwards, `OneEdit` says that one more
edit of a string, wherever in its middle, adds at most one to its distance from the
other: the columns before the edit stay (`SamePrefix`), that of the edit is at most one
above a column of the old table, because a cell is at most one above its neighbours'
(`Neighbours`), and the columns after it stay so (`CellFollows`, `SameRest`). So n edits
add up to n at most (`NotFurther`). Upwards, every cell is reached with as
many edits as it says (`ReachesCells`, over all pairs of prefixes): by an insertion, a
deletion or a replacement at the end (`ByInsertion` and so on), the edits before
being made in front of the last character (`EditExtends`, `WithinExtends`).
`SuggestsListed` says, for any items and any limit, what the lists of `SuggestMatches`
are in terms of scores, and `AlwaysSuggests` that there is one.

Recursive functions are reasoned about by a least counterexample instead of by
induction: `LeastNat` follows from the library's well-foundedness of the naturals and
gives the existence of a recursively defined function on `0..n`
(`RecursionOnNat`, used for `InOrder`, and `Recursion`, for the rows and for `Within`),
induction up to a bound for a given set (`Stepwise`, `Cells`), and the first entry of
a name (`FirstField`); `FindGitRoot` recurses over directories, and `NearestOfParent` and
its neighbours give its solution without recursion (`RootType`).

Liveness stays with TLC (`Answered`, `Admitted`, `QuietDaemonExits`, `DialEnds`,
`Reconnects`, `GrantEnds`, `RunEnds`), since the prover handles neither fairness
nor ENABLED. Every safety property that a run checks, and every refinement, is stated
by a theorem.

## Not modelled

- Message framing: a request is read whole, or not at all.
- The user-id comparison of `peercred`: only that a handler may refuse.
- The parsing of ssh agent messages and of `op`'s output; signing data; the
  format of fingerprints.
- In `ProjectInit`: items come from one vault; `ssh_keys` are one bit; suggestions
  for a mistyped name, which only change an error's text (`CommandLine` has the same
  function in `run`).
- In `CommandLine`: `--ttl`; characters of more than one byte, for which the
  threshold of the suggestions counts bytes and the distance runes; vault names
  with a slash, which `SecretReference` does not escape; a keychain that fails;
  the proxy's own socket, which is `RunCommand`'s.
- In `Picker`: the size of the list and its pages; how texts are matched; the keys
  that only the list library knows (`ctrl+j`, `ctrl+k`, `shift+tab` and the like);
  `requireOne`.
- The error text: one error response stands for all.
- Platform differences, and the delay between the kernel's closing of the flock
  and of the socket of an ending process.
- The parts marked `not_modelled` in `PROJECT.json`, each with its reason.

## Plan

All of it is done:

- `Daemon`, `ServeLoop`, `Lifecycle` with `OneDaemon`, their runs and proofs;
- `RunCommand` around `AgentProxy`, with `Grant`, its runs and proofs; `ProjectInit`
  with its run;
- `SecretWindow` with the refinement and its proof, `ProjectConfig` under `MCDaemon`
  and `CommandLine`, `Suggestions`, `Picker`, and the type invariants of `ServeLoop`
  and `Lifecycle` as theorems;
- theorems for every safety property the runs check, `Levenshtein` against `Within`
  among them.
