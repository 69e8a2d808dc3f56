# A formal model of Microsandbox Cloud

TLA+ specifications of the control plane (`apps/cloud-api`) and of the SSH
gateway (`apps/ssh-gateway`), the TLC instances that check them and the proofs
TLAPS checks. Paths below are relative to `apps/cloud-api/src` unless they
start with `apps/`.

## 1. The system

| Component | State | Operations | Talks to |
| --- | --- | --- | --- |
| `RuntimeControlService` (runtime-control/) | none between requests; a handler holds the entity it read | create, ensure, update, list, get, start, stop, delete, exec, write/download files, refresh activity; volumes; preview URLs | registry, microsandbox adapter |
| `RuntimeRegistryService` (runtime-registry/) | SQLite tables `runtimes`, `port_leases`, `volumes`, `signed_preview_tokens`, `runtime_hosts` | find, save, update, delete; `leasePorts`, `releasePorts` | TypeORM |
| `MicrosandboxAdapterService` (microsandbox/) | the VMs, the named volumes and the image cache of microsandbox | create, start, stop, remove, exec, files, status, TCP health; ensure/remove volume; pull | microsandbox SDK and CLI |
| `SshSessionService`, `SshController` (ssh/) | session map in memory, `revoked_sessions` table | create, validate, revoke, prune | registry |
| `apps/ssh-gateway` | its open connections; of each channel, four goroutines | accept, validate over HTTP, dial, bridge channels, enforce limits | API, sandboxes |
| Proxy (proxy/) and preview URLs | the requests in flight | sign, expire, resolve a preview token; route HTTP and WebSocket requests to a sandbox port | runtime control, registry, sandboxes |
| Images (in the adapter) | the image cache, the registry login of the host | pull with and without credentials, list | microsandbox CLI |
| `apps/inject-sshd` | its sessions, inside the guest | shell, exec, SFTP | gateway |
| Identity, auth, config, logging, health, bootstrap | none | pure functions and wiring | |

What is hard in it:

* **No transactions and no locks.** A handler is a chain of awaited database
  and microsandbox calls; any other handler may run at any await. Uniqueness
  is left to UNIQUE keys, everything else to luck or to the clients.
* **Upserts.** `updateRuntime` saves the entity a handler read earlier; if the
  row has been deleted since, the save inserts it again.
* **Partial failure.** Provisioning touches four things (row, leases, VM, row
  again) and deletion five (row, VM, leases, row, tokens). Every call may
  throw and the process may die between any two.
* **Ports are a bounded resource**, leased one by one, and handed on to the
  next sandbox; sessions, preview tokens and proxied requests that remember a
  port or a name outlive what they were meant for.
* **Commands in the guest** are given up on after a while and launched again,
  though the first may still run.
* **Sessions in memory, revocations on disk, connections in another process.**
* **Four goroutines and two windows** between a client and a command that may
  each stop reading, stop writing or vanish.
* **Time**: the expiry of a session, the idle limit and the poll of the
  gateway's limit loop; waiting for a VM to stop or to become healthy.

What makes each component correct:

* lifecycle: no port lease and no VM without a runtime that can release it; a
  deleted runtime stays deleted; `create` never works on somebody else's
  sandbox; what a row says of its VM is true; a request that is answered got
  what it asked for;
* ports: a lease has one owner, which exists; two runtimes never name the same
  host port; a binding that keeps its place keeps its port;
* adapter: a launch that is reported has had its script run, and is not
  repeated without bound; `stop` and `remove` keep their word; credentials do not stay behind;
  every call is settled;
* sessions: a live session validates, a revoked or forgotten one never does; a
  session leads to its own sandbox;
* gateway: a connection ends at its expiry and at its idle limit; input and
  output arrive whole; a channel ends when its session has;
* volumes: a volume has its own storage, and storage has its volume;
* previews: one live token per sandbox and port, which goes with its runtime;
  a proxied request reaches the sandbox it names.

## 2. Modules

| Module | What it is |
| --- | --- |
| `RuntimeControl` | lifecycle, runtime table, port leases and VMs; one action per await |
| `LeaseTable` | abstract: what the port leases promise |
| `PreviewAccess` | `RuntimeControl` composed with preview tokens and the proxy |
| `SandboxAdapter` | the calls `RuntimeControl` takes as one step, await by await; image pulls |
| `SshAccess` | session tokens, revocation, API restarts, gateway connections, time |
| `SessionRegistry` | abstract: what SSH access promises |
| `SshChannel` | one channel from the client to the command in the guest |
| `VolumeStore` | volumes table and named storage |
| `MCRuntimeControl`, `MCPreviewAccess`, `MCSshAccess`, `MCVolumeStore` | request bodies and symmetry for TLC |
| `RuntimeControlProofs`, `RuntimeOwnershipProofs`, `RuntimePortProofs` | theorems about `RuntimeControl`: types; ownership and accounting; ports, configurations and the refinement of `LeaseTable` |
| `PreviewAccessProofs`, `SandboxAdapterProofs`, `SshAccessProofs`, `SshChannelProofs`, `VolumeStoreProofs` | theorems about the module they are named after |

`PreviewAccess` EXTENDS `RuntimeControl`: signing and expiring are handlers of
`RuntimeControl` (its `TokenCall` steps) that act on the token table there.
`RuntimeControl` implements `LeaseTable` and `SshAccess` implements
`SessionRegistry`, each by an INSTANCE with a refinement mapping. The other
modules meet at an interface one of them abstracts: `SandboxAdapter` details
the steps `Boot`, `Start`, `Stop`, `Remove` and `Exec` of `RuntimeControl`;
`SshAccess` takes from it only the host port of an SSH binding (`Bind`,
`Unbind`); `SshChannel` details a connection that `SshAccess` has opened.

### RuntimeControl and LeaseTable

Variables: `rows` (the `runtimes` table by uuid), `leases` (`port_leases` by
port), `vms` (the VM of each sandbox name) and `req` (the handlers in flight).
A handler is a record with its route, the await it is at, its key, its spec,
the entity it holds and the locals of `leasePorts`. An action is the code from
one await to the next, the awaited call included.

| Route | Actions, in order |
| --- | --- |
| `create` | `AcceptCreate`, `CheckConflict`, then as `ensure` |
| `ensure` | `AcceptEnsure`, `CheckName`, `Lookup`, then one of three paths |
| `update` | `AcceptUpdate`, `LoadForUpdate`, then as `ensure` |
| – sandbox kept | `Probe`, `SyncFiles`, `KeepExisting` |
| – replaced | `Replace` (or a failed `Probe`), `TryPort`…`Leased`/`LeaseShort`, `Boot`/`BootFails`, `Health`, `Persist` |
| – new | `Insert`, `TryPort`…`Leased` twice, `Boot`…`Persist`; on too few ports `LeaseShort`, `DropRow`, `DropLeases` |
| `get` | `Find`, `SyncStatus`, `SyncSave` |
| `exec`, file routes, `refreshActivity` | the same, then `Exec`, `SaveStatus` |
| `start`, `stop` | `Find`, `Start` / `Stop`, `SaveStatus` |
| `delete` | `Find`, `MarkDeleting`, `Remove`, `ReleasePorts`, `DropRow`, `DropLeases`, `TokenCall` (the tokens) |
| `sign`, `expire` of a preview URL | `Find`, `TokenCall` twice |

Outside the handlers a VM stops by itself (`VmStops`) and the process dies and
restarts (`Crash`).

What is abstracted, and why it is safe:

* A spec is its name, one value `cfg` for image, command, environment, secrets,
  working directory, mounts and resources (all written to the row before the
  replacement), the list of its container ports, and whether port 22 was pushed
  by `buildSpec` or listed by the client. The last distinction is there because
  `portBindingsEqual` compares JSON text and the two spell their keys in a
  different order. A row and a VM have the list of container ports (`ctr`) and,
  place by place, their host ports (`ports`). Provisioning reuses host ports by
  place and `buildSpec` pushes 22 behind the others, so a port that is added
  takes the host port SSH had, and SSH is leased another; a list that shrinks
  releases no lease, and growing again leases anew. The protocol and the name
  of a binding are left out. `public`, which the row takes after the replacement, is
  not modelled: it is compared and copied like the port list.
* Identifiers are normalized before they enter; sandboxIds and names come from
  one set because `findRuntimeBySandboxIdOrName` looks a key up in both
  columns.
* A uuid is any unused id; which one does not matter, so one is chosen.
* The find and the save of one turn of `leasePorts` are one action. A port
  taken between the two is refused by the UNIQUE key and skipped exactly like
  one found taken, so nothing is lost.
* Two calls that only read (`getStatus` and the TCP probe) are one action.
* A health check can succeed only on a port some running VM publishes; it may
  time out at any time.
* The database does not fail; a save is one atomic upsert that the UNIQUE
  columns may refuse.
* microsandbox (external): two running VMs cannot publish one host port
  (`CanPublish`); a failed creation leaves the old VM, no VM, or the new VM
  without its command; a VM that is started again publishes the ports it was
  created with; a call that fails changes nothing unless its action says so.

Flags: `Exclusive` says that clients never have two requests in flight for one
sandbox (its sandboxId, its name, and those of the rows they match);
`MayFail`, `MayMiss` and `MayCrash` switch on failing microsandbox calls,
`Sandbox.get` failing for a VM that exists (which `getSandboxHandle` takes for
a missing one), and crashes of the process.

`LeaseTable` has the owner of each port and the runtimes that exist. Its steps
are `Create`, `Lease`, `Release` and `Destroy`; the mapping is `leases` and
the ids with a row (`ImplementsLeaseTable`).

### PreviewAccess

Adds `signed` (the `signed_preview_tokens` table), `arg` (what a signing or
expiring handler goes on with), `proxy` (the proxied requests) and the history
`cut`. `Clear` and `Issue` are `createSignedPreviewToken`, `ReadToken` and
`ExpireToken` are `expireSignedPreviewUrl`, `DropTokens` is the last call of
`deleteRuntime`. A proxied request is `ReadSigned` (or `Purge`, of a token
that has expired), `LookupSigned`, `Done`, or `Direct` for one that names the
sandbox; a lookup and the forward that follows it have no await between them
that matters, so `Forward` is part of both. HTTP and WebSocket requests take
the same route. Whether a caller knows a token, and the comparison of an access
token, are not modelled: requests are made with every token there is.

Two cases are exempt, and real. A proxied request that read its record before
its sandbox was deleted is served by whatever has the name when it looks the
sandbox up, and one that looks it up during a deletion may be forwarded to the
next owner of the port; `ProxyReachesSandbox` therefore compares with the
sandbox of the *name* and exempts rows marked `deleting`. A crash between
`ReleasePorts` and the end of a deletion (`cut`) leaves tokens that open a
sandbox created again under that name, or a row whose ports are free; the next
`syncStatus` overwrites the `deleting` mark of that row, and the proxy then
forwards to the sandbox that leased its port.

### SandboxAdapter

Variables: `vm` (status, whether its launch script has run, the copies of its
command that the script has started, the scripts that may yet run, the launches
in this boot), `host` (image cache, credentials, whether a logout has failed)
and `call`, the calls in flight. `Create`; `Get`, `Boot`, `Connect`; `Written`
for the file calls of `injectSshBinary`; `Attempt`, `Answered`, `EndsSilently`,
`TimesOut`, `Fails` for `execWithTransientRetry` and `execWithTimeout`, which
the chmod and the ssh-keygen of the injection share with the launch (`stage`),
and `Done` for what follows each; `Guest` for a command of `exec`;
`DetachBestEffort` of `create`, `Detach` of `start` and `exec`. `Stop`, `Poll`,
`PollFails`, `Kill`, `Pause`, `Deadline`, `Remove`, `ForceRemove` are `stop` and `remove` with `waitForSandboxStop`. `GetImage`,
`Pull`, `Login`, `AuthPull`, `Logout`, `Check` are `pullImage`. The file calls
follow the course of `exec`; `refreshActivity` and `getStatus` are a step in
`RuntimeControl`.

An injection that fails is a warning and the launch goes on; a script that is
answered may have started nothing, because its `cd` has failed or the daemon is
not there, and its exit code is not looked at (`Runs`). So `vm.ran` says that
the script has run and `vm.copies` counts what it has started, and
`ResolvedMeansLaunched` claims the first only.

`Sandbox.get` may fail for a VM that exists. `start`, `stop` and `exec` throw
then; `remove` takes it for a VM that is gone and resolves, and a `stop` that
waits takes a status it cannot read for a VM that has stopped. Such calls are
marked `blind`, and `StopSettles` exempts them: it says that nothing else lets
`stop` or `remove` resolve too early, in particular not a wait that ends too
early in `remove`, since `handle.remove` and the forced removal decide.

Some awaits have no timeout: the command of `exec`, the `fs.write` and
`fs.mkdir` of the injection, the detach of `start` and `exec`. A guest that
does not answer hangs the call there, and `EveryCallSettles` exempts exactly
those (`Unbounded`).

Reading it shows a few things that are no property: `start` on a VM that runs launches another
copy of its command; `exec` while a `stop` is under way may boot the VM again;
`waitForSandboxStop` kills a VM only when the status read itself crosses the
deadline, not when the pause does; a pull that finishes logs out under another
one of the same registry, whose pull may then fail.

A call of microsandbox on the host, or of the msb command line, always ends
(the code gives it no timeout): this is an assumption of `EveryCallSettles`.

### SshAccess and SessionRegistry

Variables: `now`; `ssh`, the host port of each sandbox's SSH binding (all that
matters of the runtime table); `sessions`, `revoked` and `revoking`, the map,
the table and the `revokeSession` calls that await their save; `conns`, the
gateway's connections; and the history `issued`, `dead` the
properties talk about.

`CreateSession`, `RevokeDelete`/`RevokeSave` and `Restart` are the API.
`Connect`, `CheckRevoked`, `GetSession`, `ValidateFails`, `Receive` are one
validation as the gateway and the API see it, with the await between the table
and the map; `Dial`, `Touch`, `EnforceLimits`, `Leave` an open connection.
`Bind` and `Unbind` stand for what provisioning and deletion do to the port.
`createSession` awaits only the lookup of the row; its lookup and the entry in
the map are one action. `Tick` advances a discrete clock, never past a limit
check that is due (Go fires timers when they are due; scheduling delay is not
modelled). The bound `MaxTime` stops the clock, and a session is only created
if it can expire before that.

`SessionRegistry` has no map, table, await or timer: a token is live from its
issue until it is killed, only a live unexpired one is granted, and no
connection is open `Grace` after the expiry. The mapping takes the tokens in
`dead` as killed, a connection that has its answer as granted, and
`MinSleep` for `Grace` (`ImplementsRegistry`).

### SshChannel

Data is counted in chunks: `in`, `out` and `err` say how many have reached
each place, so order and loss are visible and content is not. `go` are the
goroutines of `bridgeChannel` that have not returned, `ends` what the gateway
has announced, `up` the two TCP connections, `client` and `server` the state
of the two ends, `exit` the way of the exit status. `RelayRequest`,
`EndClientReqs`, `RelayExit`, `EndSandboxReqs`, `ReadInput`, `WriteInput`,
`EndInput`, `ReadOutput`, `WriteOutput`, `EndOutput` are the gateway;
`TakeInput`, `TakeEof`, `SendOutput`, `SendError`, `CloseSession` the daemon,
with the copies of os/exec and x/crypto/ssh; client and command are external.
`Disconnect`, `HangUp`, `VmDies`, `CloseConns` take the connections down.

What the model also shows: stderr is never read by the gateway, so a command
that fills the window with it stalls until a limit (`Choked`, exempt from
`SessionEnds`); the exit status and the end of the output are relayed by two
goroutines, so a client that closes at the end of the output may miss the
status; a dropped client is a clean end of input to the command, with what it
had typed cut off; a client that keeps its input open keeps the channel of a
command that has exited; a shell with a terminal stays in the guest when its
client is gone; the exit status is always 0.

### VolumeStore

Variables: the `volumes` table, the storage of each backend name (a function
of the volume's name) and the handlers. `Create`, `Check`, `Save`, `Ensure`,
`Undo` are `createVolume`; `Delete`, `Find`, `Remove`, `Drop` are
`deleteVolume`. `Ensure` adopts storage that exists, as `ensureVolume` does;
`Remove` may leave the storage of a `Sticky` name, because `removeVolume` ignores
every error. `Serial` are the names whose clients wait for one answer before
the next request; the storage properties are stated for the names that are
serialised and not sticky, since names do not interact. `Volume.create` either
creates the storage or throws without effect.

`MayCrash` lets the process die. `createVolume` inserts the row first and makes
the storage second, `deleteVolume` removes the storage first and the row
second, so a crash leaves at worst a row without storage; `cut` are the names
where it did.

## 3. Runs

Every run explores its whole state space and, unless it says so below, checks
for deadlock.

| Run | Instance | Shows |
| --- | --- | --- |
| `RC_accounting` (1.1 M states) | 2 sandboxes, 3 ports, 2 handlers; ensure, delete; failures | `TypeOK`, `NoOrphanLease`, `NoOrphanVm`, `BoundPortsLeased`, `OnlyInsertAddsRows`, the refinement `ImplementsLeaseTable` and the inductive invariant `ExclusiveInv`, for serialised clients |
| `RC_names` (2.7 M) | 2 sandboxes, one of which may be a name, 2 configurations with a port list each, 4 ports, 2 handlers; create, ensure, delete | `NoSharedHostPort`, `CreateNeverAdopts`, `RunningAsConfigured`, `BindingsFollowVm`, `AnsweredAsAsked` |
| `RC_commands` (3.2 M) | 1 sandbox, 4 ports, 1 handler, all routes but create, sign and expire, 1–2 ports with and without SSH; failures, missed VMs, crashes | `NoOrphanLease`, `HostPortsStable`, `ReplacementRepairs` |
| `PREVIEW` (1.9 M) | 2 sandboxes, 2 ports, 2 handlers, 2 tokens, 1 proxied request; create, delete, sign, expire; one crash | `PTypeOK`, `OneTokenPerPort`, `TokensGoWithRuntime`, `ProxyReachesSandbox` |
| `SSH_access` (0.4 M) | 2 tokens, 1 connection, lifetimes 2 and 6, idle 3, poll 4, minimal sleep 2, clock to 9, with fairness | `TypeOK`, `LiveSessionsKept`, `DeadNeverAnswered`, `ClosedInTime`, `EveryConnectionCloses`, the refinement `ImplementsRegistry` |
| `CHANNEL` (0.7 M) | 2 chunks each way, 1 of stderr, a window of 1; command, terminal, sftp; with fairness | `TypeOK`, `InputWhole`, `OutputWhole`, `SessionEnds`, `BridgeEnds` |
| `ADAPTER` (0.8 M) | 2 calls of any kind, 2 attempts, 2 launches in one boot, with fairness | `TypeOK`, `CopiesBounded`, `ResolvedMeansLaunched`, `NoCredentialsLeft`, `StopSettles`, `EveryCallSettles` |
| `VOL_store` (37 k) | 3 handlers, 2 serialised names, 1 raced for and with failing removals; failing creations, crashes | `TypeOK`, `NamesUnique`, `OwnStorage`, `NoOrphanStorage` |

Why the bounds are enough. Two handlers are what a race needs. A new runtime
leases each of its ports twice, so with three ports (`RC_accounting`) the
range runs out in the first and in the second lease call of the competitor,
and with four (`RC_names`) both sandboxes are bound at once. A crash forgets
what handlers know and nothing else, so in the lifecycle it is explored with
one handler and every route (`RC_commands`) and left to the proofs for more.
`BoundPortsLeased` is not checked with crashes: one between `ReleasePorts` and
`DropRow` leaves a row whose ports are free, and a later ensure that fails
keeps them. `RunningAsConfigured`, `BindingsFollowVm` and `AnsweredAsAsked` are
checked without failures: a replacement that fails after the row was written
(`runtime-control.service.ts:479`) leaves a row the next request takes for the
configuration that runs, which `RC_failed_update` shows. With failures and
crashes `RC_commands` checks what is left of it, `ReplacementRepairs`: the next
replacement that is answered puts row and VM in agreement.

In `PREVIEW` a crash is bounded to one, and to a deletion that has released its
ports: only there does it leave tokens or a row whose ports others take. The two
ports are what a new sandbox leases, so a second one gets its ports when the
first has given them up, and takes over the port of its binding. One proxied request is enough,
since requests change nothing but expired tokens. In `SSH_access` the poll is
longer than the idle limit and than one lifetime and shorter than the other,
so each of the three operands of the sleep is the least in some state, and the
minimal sleep exceeds the least in some state. In `CHANNEL` a window of one
makes every write wait, two chunks let one be held by a copy while the other
is in the channel, and one chunk of stderr is enough to use up the window; a
session really stops, so that run does not check for deadlock. In `ADAPTER`
two attempts (three in the code) are the least with a retry, two calls the
least with a race; `MaxLaunches` bounds the starts of a VM that runs already.
In `VOL_store` an insertion waits only while all five ids are in use. The
theorems below remove the bounds for all properties they name.

Runs that end in a violation, each a disagreement between the code and what
it or its documentation says:

| Run | Property | What happens |
| --- | --- | --- |
| `RC_failed_update` | `AnsweredAsAsked` | an update whose replacement fails is sent again, and answered as done while the VM runs the old configuration |
| `RC_growth_collision` | `NoSharedHostPort` | an ensure that asks for more ports than are free drops the leases the sandbox has; the next one is bound to the same port |
| `RC_resurrection` | `OnlyInsertAddsRows` | a get in flight during a delete saves the row back |
| `SSH_wrong_sandbox` | `ReachesOwnSandbox` | the session of a deleted sandbox leads into the one that has its port now |

`PROJECT.json` quotes the line each of them contradicts.

The conditions of the passing runs are needed as well; each of these changes
of a configuration makes TLC produce the behaviour:

* `MayMiss = TRUE` in `RC_accounting`: one failing `Sandbox.get` during a
  delete, and the row goes while the VM stays (`NoOrphanVm`);
* `MayFail = TRUE` in `RC_names`: a failed replacement, then an ensure that
  reports the old VM as running the new configuration (`RunningAsConfigured`;
  `RC_failed_update` is the same for an update);
* `Exclusive = FALSE` in `RC_names`: of two creates of one name the second
  passes both name checks before the first inserts, and goes on with the first
  one's sandbox (`CreateNeverAdopts`);
* `Sticky = {n3}`, `Serial = {n1, n2, n3}` in `VOL_store`, with `OwnStorage`
  stated for `Serial`: `Volume.remove` fails, the error is swallowed, and the
  next volume of the name starts with the old data.

Three more things the models show are not properties of a run: a key may be
the sandboxId of one sandbox and the name of another; revoking a token that was
never issued is acknowledged; and a VM that was stopped comes up again without
the SSH daemon, whether by `start` (`microsandbox-adapter.service.ts:395`
passes no `ssh`) or by an `exec`, where `src/README.md:55` has one injected
into every sandbox with SSH.

### Fairness

* `RuntimeControl` and `PreviewAccess` state none, and no liveness: whether a
  request ends is up to the calls of the adapter it awaits, and of those
  `EveryCallSettles` says what can be said.
* `EveryConnectionCloses`: time passes and a due timer fires; the client, the
  sandbox and the API may do nothing for ever. The clock bound does not make
  the property vacuous: a session is only issued if its expiry and one minimal
  sleep fit before the bound.
* `SessionEnds`, `BridgeEnds`: each goroutine of the gateway and each copy of
  the daemon that can go on does, and a client closes a channel that has ended
  both ways. Nothing makes a client end its input, a command exit, a VM die or
  a limit come: the properties start where those have happened.
* `EveryCallSettles`: microsandbox and `msb` answer and time passes (`Step`,
  `TimesOut`, `Deadline`); the guest need never answer (`FromGuest` has no
  fairness) and the VM need never stop. The detach of `create` is in `Step`
  because `detachBestEffort` gives it two seconds; that of `start` and `exec`
  is not.

## 4. Proofs

All theorems hold for every value of the constants that satisfies the named
assumptions (ports, times and numbers of chunks are natural numbers, names are
normalized identifiers, null values are outside the types).

Lifecycle:

* `TypeCorrect`: `Spec => []TypeOK`, by the invariant `TypeInv`, which adds to
  the types what each await knows of its handler (`HandlerOK`) and that a row
  is stored under its own id. No assumption on the clients.
* `Ownership`: `Exclusive => (Spec => []ExclusiveInv)`. None of the accounting
  properties is inductive by itself: that the row of a lease is there depends
  on the handlers that are taking the runtime apart or putting it together. The
  invariant says what each handler knows of the tables at each await (`Owned`:
  the row it holds exists; a handler about to lease for a new row or to drop a
  row has no VM; before the row goes, its leases are gone) and that the
  footprints of two handlers do not overlap (`Separate`). Each action of a
  handler is shown to touch only what its handler owns (`OnlyOwn`), and from
  that alone every other handler's knowledge survives (`Undisturbed`). A crash
  forgets the handlers and leaves the accounts as they were.
* `LeaseAccounting`, `VmAccounting` (which also needs `~MayMiss`) and
  `NoResurrection` follow. `RC_resurrection` shows that `Exclusive` is needed.

Ports and configurations (`RuntimePortProofs`, all under `Exclusive`). The
module first says what one step of a handler does, in the terms the proofs
need: to the handler (`HandlerStep`), to the table of runtimes (`RowStep`: it
inserts, saves, drops or is refused), to the VM (`VmStep`), to the leases
(`LeaseStep`: it takes one free port, gives all back, or neither), and what
arrivals, VMs that stop and crashes do (`OtherStep`). The theorems rest on these
lemmas instead of the actions, and each has an inductive invariant of its own
on top of `ExclusiveInv`:

* `StableHostPorts`, from `BindingsInv`: the row's bindings, those of the entity
  a handler holds, the ports it has got and the ports its VM publishes agree at
  every place they share. No call has to succeed for it.
* `LeasedBindings` and `HostPortsDisjoint`, from `LeasedInv`: a runtime holds
  the ports its row names and those its handler has got. Two behaviours of the
  code break this and are excluded by name: `leasePorts` running short for a
  runtime that has bindings, which gives those up too (`ShortGrowth`; the run
  `RC_growth_collision` shows it), and a crash between `releasePorts` and
  `deleteRuntime` (`CutDelete`), which leaves a row whose ports are free. Both
  are hypotheses about behaviours, not constants: every other failure and
  crash is covered.
* `RepairAfterFailure`: a replacement that is answered leaves row and VM in
  agreement with each other and with the request, whatever failed, was missed
  or crashed before. It rests on what a handler knows at each await
  (`HandlersKnow`), which needs nothing but `Exclusive`.
* `RowFollowsVm`, `ConfiguredAsRecorded` and `NoFalseAnswer`, from `ConfigInv`:
  the VM of a row that no handler is replacing has its configuration, its
  container ports and its host ports. This can be lost only by a
  replacement that is cut short between the save of the new configuration and
  that of the new bindings (`Interrupted`: a handler at `lease2`, `boot` or
  `health` ends, or the process dies there or at `persist`). The three theorems
  assume that no step does that, and `~MayMiss`, since a delete that misses its
  VM leaves it to the next sandbox of the name; every other failure and crash is
  covered. So together with `RC_failed_update` they say that an interrupted
  replacement is the only way to a false answer, and with `RepairAfterFailure`
  that it lasts until the next replacement.
* `LeaseTableRefinement`: each step is one step of `LeaseTable` or a stutter:
  only `leasePorts` gives ports away, free ones and to a row that exists, and
  a row goes only without leases.

Preview URLs (`PreviewAccessProofs`): every step of `PreviewAccess` is a step of
`RuntimeControl` or leaves its variables alone, so `PSpec => Spec` and all of
the above holds there.

* `PreviewTypes`, for any clients.
* `SingleToken`, from `SignInv`: between the delete and the insert of
  `createSignedPreviewToken` the port has no token. It assumes no
  serialisation, only that no two handlers are between the two for one port
  (`RivalSigns`). Nothing in the code excludes that, and no key on
  `(sandboxId, port)`: the theorem says that it is the only way to two tokens,
  whatever else is in flight.
* `TokensFollowRuntime`, from `GoInv`: a token's sandbox is in the table or being
  deleted by a handler that will drop its tokens, and a runtime that has just been
  inserted has none. A crash may interrupt that (`cut`).
* `ProxyReaches`: the row a request has found holds the lease of its binding
  (`LeasedBindings`), and the runtime whose VM publishes that port holds it as
  well (`PublishesOwn`), so they are one. That a VM publishes only ports its
  runtime has leased is an invariant of its own (`VmsLeased`), which survives
  failed boots and crashes. It needs `Exclusive`, `~MayMiss` (a VM without a row
  publishes ports of others), no `CutDelete`, and no `ShortReplacement`:
  `ShortGrowth`, also of a runtime that has a VM but no bindings, as a boot
  that failed or a crash may leave it.

SSH:

* `SshInvariant`, by `TokenInv` (a session in the map is the one issued, not
  dead, and a map entry answers only its token) and `TimerInv` (when the next
  check of an open connection comes, relative to its expiry and its last
  traffic). `SshTypeCorrect`, `NoSessionLost`, `NoDeadAnswer` and `LimitsKept`
  follow; the last is arithmetic over arbitrary poll intervals and timeouts.
* `RegistryRefinement`: `Spec => ImplementsRegistry`, from those and that a
  connection past validation holds the entry that was issued (`GrantInv`).
* `InputIsWhole`, `OutputIsWhole` and `ChannelTypeCorrect`, for any amounts of
  data and any window. Neither end is inductive by itself: the invariant adds
  that with both connections up a copy ends only behind its data (`UncutInv`),
  that an end is announced only by a copy that has ended (`EofInv`), and that
  the daemon closes only with everything sent (`SessionInv`).

Adapter and volumes:

* `StopAndRemoveSettle`: a resolved `stop` has seen the VM stopped or its
  deadline pass, and a resolved `remove` has seen it absent, unless the call is
  `blind`. `RouteInv` says which awaits each kind of call can be at.
* `CopiesWithinAttempts`: a launch may time out with the command still to come,
  and others launch into the same VM. The invariant `CreditInv` counts the
  attempts every call in the running VM has left as credits: copies, pending
  copies and credits together are at most `Attempts` for each launch. An attempt
  turns a credit into a copy, and a new launch brings its own.
* `AdapterTypeCorrect`, `ResolvedLaunchHasRun` and `CredentialsGoWithPulls`,
  for any number of calls and attempts. `ResolvedMeansLaunched` is
  strengthened to the calls that are about to report a success (`LaunchOK`);
  the type part carries that a VM which is not running holds no copies and no
  live sandbox object.
* `VolumeTypeCorrect`; `NamesStayUnique`, which needs no serialisation: the
  UNIQUE key alone keeps names apart; `StorageFollowsTable`, whose invariant
  says that a serialised name has one handler (`Alone`), that a handler's row
  has its name (`OwnRow`), that a creation finds no storage (`NoStore`), and
  that a row without storage is being worked on or was left by a crash
  (`Covered`). `VolumesOwnStorage` and `StorageHasVolume` follow.

Every invariant and action property of the passing runs but
`CreateNeverAdopts`, and both refinements, are stated by one of these theorems.
Only model-checked are that one (two creations in flight beat the check, so
there is nothing to prove but the serialised case), the four liveness properties
(`EveryConnectionCloses`, `SessionEnds`, `BridgeEnds`, `EveryCallSettles`:
fairness is out of the prover's reach) and the violations. The theorems about ports and proxied requests exclude a
deletion that a crash cuts short; for `ProxyReachesSandbox` the run `PREVIEW`
explores just that crash, with the routes that do not boot such a runtime
again.

## 5. Not modelled

* `RuntimeIdentityService`: stateless functions on strings. The models take
  sandboxIds, names and volume names as normalized, and spellings that
  normalize alike as one name. Backend names of volumes stay apart as long as
  the prefix has at most 55 characters (names are cut at 120), which the
  default keeps.
* Authentication guards (stateless comparisons; `ProxyTokenService` has no
  caller outside its test), configuration, logging, health, migrations and
  bootstrap (wiring, I/O, constants).
* Of the daemon in the guest: key checks and window sizes. Of the gateway: host
  keys and the reading of its environment.
* Routes that change nothing: list and get of images and volumes, the
  validation routes of the proxy, `getPreviewUrl`.
* Everywhere: the database is reliable, and one API process runs at a time.

## 6. Plan

1. `SandboxAdapter` shown to implement an abstract VM whose steps are those
   `RuntimeControl` takes, and `SshAccess` composed with `RuntimeControl`
   through the host ports instead of `Bind` and `Unbind`.
2. The comparison `requiresRecreate` makes, field by field, with the round trip
   of an update, and name normalization as operators over bounded inputs.
