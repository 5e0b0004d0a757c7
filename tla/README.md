# A verification project for MCP Restrictor

MCP Restrictor sits between an MCP client and an MCP server, hides the tools a
policy does not allow from `tools/list`, and checks every `tools/call` on its
own. Its command line program also installs itself into the configuration files
of MCP clients, undoes that again, keeps credentials, and serialises all of it
with lock files and rollback. This directory holds TLA+ models of that code,
what TLC checks about them and what TLAPS proves about them.

Paths below are relative to `packages/` of the repository. `PROJECT.json` maps
every definition to the lines it models, and lists hazards, runs, mutations
(each shows one plausible bug that its property catches), findings and theorems.

## 1. Inventory

| Part | Source | State | Operations | Hard because |
|---|---|---|---|---|
| Message filter | `core/src/index.ts` | `pendingRequests`: id → method | `handleClientLine`, `handleUpstreamLine` | the authorizer is awaited between taking an id and freeing it; responses are recognised by id only |
| Policy | `policy/src/index.ts` | none after parsing | `discover`, `authorize` | two independent readings of one policy must agree |
| Transport bridge | `transports/src/bridge.ts` | jobs, deferred responses, initialize ids, closing, failure | start, both `onmessage`, `close`, `drain` | every `await` interleaves with every other message and with closing |
| Stdio proxy | `transports/src/stdio.ts` | held-back end of input, failure promise | `runStdioProxy` | EOF, abort, failure and upstream exit race |
| Private file lock | `cli/src/setup/transaction/private-lock.ts` | lock file, `.reap` directory | `withPrivateFileLock` | several processes, crashes, reused pids, cancellation, I/O errors during release |
| File transaction | `cli/src/setup/transaction/{apply,atomic-file,snapshots}.ts` | files, backups, journal | `applyFiles` and its reverse rollback | other programs edit the same files, any step may fail |
| HTTP routes, gateway | `transports/src/http.ts`, `http/protocol.ts` | sessions, active bridges | request handling, `close` | sessions close before they are stored; shutdown races new sessions |
| Upstream transports | `transports/src/{upstream,remote,utils}.ts` | tracked event streams | `fetch`, `close` | closing waits for streams that are being opened |
| WebSocket transport | `transports/src/websocket.ts` | socket, started, closed | `start`, `send`, `close` | events of the socket in any order |
| Tool discovery | `transports/src/discovery.ts` | one-shot client | list all pages | timeout against a late answer |
| OAuth runtime | `cli/src/oauth/{provider,storage}.ts`, `storage/master-key.ts` | stored tokens, master key | `token`, refresh, key creation | refresh of two processes at once |
| OAuth login | `cli/src/oauth/login.ts`, `login/` | callback server | `login` | callback against timeout and abort |
| Restore | `cli/src/setup/restore/` | a restore record per server | choose, plan, undo | long sequences of setup and restore; policies shared by servers |
| Setup flow | `cli/src/setup/*.ts` | the user's choices, a plan | discover, plan, write, verify | plans go stale while the user thinks; a crash between two files |
| Client adapters | `cli/src/setup/{claude,codex,opencode,wrapper}` | none | parse, print | what one program wrote another must recognise |
| Client plugins | `cli/src/client-plugins*` | registry, promotion journal | install, remove, recover | a crash between two renames |
| Commands and routes | `cli/src/commands`, `routes.ts` | route definitions | run, login | all routes must share one origin |
| Terminal interface | `cli/src/setup/{interaction,presentation}.ts`, ... | none | ask, show | nothing that outlives a prompt |

How they interact. A transport hands each JSON-RPC message to the bridge. The
bridge starts a job, the job awaits the filter, the filter awaits the
authorizer built from the policy, and the job sends on the other transport.
`runStdioProxy` owns one bridge and decides when it is drained and closed; the
HTTP gateway owns one per session or request. The command line programs share
nothing but files: setup, restore, OAuth storage and the client plugin registry
all run their read-modify-write inside `withPrivateFileLock`, and setup and
restore install files with a file transaction.

What makes each correct:

* Filter, policy, bridge: the server executes only calls that were allowed and
  recorded; a client sees only tools it may discover; ids of outstanding
  requests are distinct and remembered; every message meets exactly one fate. Tightening
  a policy never opens what was closed.
* Stdio proxy: a piped client loses no response, and the proxy ends.
* Lock: one operation at a time; a live owner's lock is left alone; a failed
  release leaves neither a lock nor a half-reported effect; every call ends.
* File transaction: all files or none, never over somebody else's edit.
* Promotion: after a crash the old or the new adapter is in place.
* Routes, transports: `close` ends with nothing open; start settles once; no
  bridge is left that nobody would close.
* OAuth: the newest credentials are never lost or overwritten by an older
  refresh, every profile can be decrypted, and a login leaves nothing behind.
* Setup and restore: whatever happens in between, the entry the user had can be
  put back, with the policy it had; no wrapper or route lacks its policy.

## 2. Modules

| Module | What it is |
|---|---|
| `Policy` | the schema and the authorizer as operators |
| `PolicySession` | a proxy and its policy over time: lists, calls, and restarts with an edited policy file |
| `Restrictor` | abstract: the fate of one client message, with no event loop, transport or bookkeeping |
| `Bridge` | `bridgeTransports` with the filter it owns |
| `StdioProxy` | `runStdioProxy`, composed with `Bridge` (EXTENDS) |
| `PrivateLock` | `withPrivateFileLock` for any number of calls and processes |
| `FileTransaction` | `applyFileTransaction` against editors and lock-respecting updaters; uses `PrivateLock`'s promise |
| `ClientPlugins` | the registry of client plugins: install, remove, load, recovery, sweep |
| `WebSocketTransport`, `HttpTransport` | the two kinds of remote upstream transport |
| `Upstream` | `createUpstreamTransport`, driven by a caller or by `discoverToolNames`; composes both (EXTENDS) |
| `HttpGateway` | the HTTP listener with its routes, sessions, bridges and its close; uses `Bridge`'s promise |
| `OAuthLogin` | `loginOAuthProfile`: one interactive authorization |
| `OAuth` | master key, profiles, refreshing proxies and the login command; EXTENDS `OAuthLogin` |
| `Wrapper` | operators: the wrapper's command line, client entries, route definitions |
| `Discovery` | operators: which upstream a server turns out to be |
| `RestoreState` | operators: what a setup records, what a restore offers and does |
| `Setup` | any interleaving of setup and restore commands on one disk; composes the last three |
| `MC...` | values for TLC, one configuration per run |
| `BridgeProofs` (with `PolicySession` and `StdioProxy`), `PrivateLockProofs`, `FileTransactionProofs`, `ClientPluginsProofs`, `ClosingProofs` (with `Upstream` and `HttpGateway`), `OAuthProofs`, `SetupProofs`, `EntryProofs` (EXTENDS `SetupProofs`) | theorems |

### PolicySession

`SessionInit` and `Restart` are `loadPolicy` and `createPolicyAuthorizer` when a proxy starts
(`cli/src/commands/proxy.ts:326`); the file may have been edited in any way since the last start, and
a running proxy does not notice edits. `List` filters a `tools/list` response with
`discover`; `CallAllowed` and `CallDenied` are the two answers of `authorize` to a
call, arguments and all. `hidden` and `refused` are history: they record what was closed until
an edit loosens the policy. `Tightens` is a definition of this project, not of the code: it
compares two policies rule by rule, without asking which calls they match.

### Bridge

The program is one event loop, so an action is the code from one `await` to the
next, and jobs interleave exactly there. The job of a client message goes
`authorizing` → `forward` → `sending` → `done`, or `reply` → `replying` →
`done` when the filter answers itself: `ClientMessage` is
`downstream.onmessage` with `handleClientLine` up to its first await, `Allow`,
`Deny` and `AuthorizerThrows` are the continuation of `authorize()`, `Forward`
is the code between the filter's return and `upstream.send`, `Sent` and
`SendFails` what follows it. `Answer`, `Deliver` and `Delivered` are the same
three pieces of `upstream.onmessage`; server-initiated messages have
`ServerMessage`, `Relay` and `Relayed`. `pendingRequests`,
`pendingResponses` and `initializeRequests` are the maps of the code, with
`None` for an absent key. `resolved` records which deferreds were resolved,
`drain` what the loop of `drain()` waits for. `forwarded`, `reply`, `tools`,
`audited` and `related` record what was handed to the two transports and the
audit callback.

`ImplementsRestrictor` is the refinement: `Stage` maps a message of the bridge
to its stage in `Restrictor`, `tools` to what was shown.

What is assumed of the outside: a server answers only requests it was sent,
each at most once, at any time after the send began; any send may fail or never
settle; either transport may close or report an error at any time; the client
sends what it likes, in any order, with any reuse of ids. Lines that are not
JSON-RPC cannot come from a transport, and an audit callback that throws is left
out (the id of its call would stay taken).

### StdioProxy

`delivered()` is the end of input reaching the parser after everything before
it; `DrainSettles` closes the bridge once `drain` ended. `input` and `outcome`
are the state of the input stream and of the promise `runStdioProxy` returns. With `Patient`
the client uses an id again only after it read the answer to its first use, as
JSON-RPC asks; without, it may use it whenever it wants. The exit code of a
stdio upstream is passed through by the code and left out here.

### PrivateLock

One action is one file system call and the code up to the next one; `pc` says
which call that is. The lock file is the token of the call that linked it
(content and link appear at once, since the file is written under a temporary name
first), `seen` is the snapshot a waiter took, `reaper` the `.reap` directory.
Every file system call has a failing twin (`LinkFails`, `ReadFails`, ...) that
spends one of `MaxFaults` errors. A process may crash at any point (`Crash`);
its files stay, its pid may be given to another process (`PidReused`).
`Container` selects owners with a process start identity; `Readable` says that
`/proc/<pid>/stat` of a live process can always be read. Locks shared between a
container and its host are excluded by `docs/container.md` and not modelled.

### FileTransaction

`pc` is the next file operation, `at` the planned change it belongs to. The
first row of actions (`Installs`) is the loop of `applyFileTransaction` with
`atomicWrite`, `writePrivateFileAtomically` and `removePlannedFile`; `Verifies`
is the caller's `verify` with `acceptInstalledUpdate`; `Undoes` is the reverse
rollback with `rollback`, `rollbackPrivateWrite` and `rollbackDelete`. A failed
sync or release undoes its own change at once, with the same code, so `cause`
remembers whose rollback runs. `file` holds what a snapshot tells apart: the
content, and one write of it from another. `installed` is the snapshot in the
journal, `saved` the paths in the backup directory, `broken` the paths whose
rollback threw and is reported.

Two other programs take part. The *editor* saves and deletes files whenever it likes
and knows of no lock. The *updater* is a running proxy that stores refreshed
tokens: it reads a private file, and later replaces it under the file's lock if nothing
changed. The lock itself is reduced to what `PrivateLock` shows of it: one
holder at a time. No file system call replaces a file only if
it is unchanged, so an edit that falls between the last look and the rename is
lost; `raced` marks exactly those edits and `OthersWorkSurvives` allows no others.
A crash is not an action: it leaves the files as they are in some state, and
the invariants hold in every state. The signal is read in three places only, so
`Abort` is enabled before those. Directories, modes, owners, and the removal of
temporary files are left out.

### ClientPlugins

A process runs one command: `installClientAdapter`, `removeClientAdapter` or
`withInstalledClientAdapters`. Each command visits the registry one to four times, and
`entry` says which visit it is: an install visits to recover, to promote, to
let its promotion be confirmed, and, if it failed, to clean up; a load visits
to take leases and again to drop them. `pc` is the next file operation. Every visit is
`withClientPluginRegistry`: the lock, the recovery of an interrupted promotion
(`Recovers`, from `RecoverClientPluginPromotion` to `DropBackup`), the sweep of
module graphs, the operation itself, and `Release` or `Fail`. `RollBack` is what
a failed release undoes; what the command does after a visit is in
`AfterSuccess` and `AfterFailure`.

A *container* is what an installed adapter is on disk: a directory with metadata and a
pointer to a module graph beside it. It is named after the process that
made it (or after its package, if it was there at first); `place` says where it
is (the stage, its package's directory, a backup, an inactive name), `graph` where its
module graph is. `rm -r` is two actions, since a crash between them leaves a
broken container (`debris`). `leases` are the lease files; one of a dead process
counts for nothing. The journal names a package and the backup, if there is one.
`confirmed` records whose promotions a recovery completed.

The lock is what `PrivateLock` shows of it: one holder, a dead holder
loses it, and a release that fails for good costs one I/O error. An adapter may be
rejected for what it contains without any I/O error, except once its own promoter
has loaded it from its final place and waits for confirmation: then only an I/O error rejects
it (`Judge`). `PointersReadable` says that the sweep can read the pointer of every
active container; see below for what happens otherwise. What adapters contain, ids,
warnings, copies for the runtime and the `list` command are left out.

### Upstream, WebSocketTransport, HttpTransport

Each handler of a socket event and each method up to its first await is an action.
The fields of `WebSocketClientTransport` are the variables; the `ws` socket is
its `readyState` (`socket`) and the events that may still come (`WsOpen`,
`WsError`, `WsPeerClose`, `WsCloseEvent`). `held` and `heard` say whether `#socket`
and the listeners are still set: an event of a forgotten socket does nothing.
In `HttpTransport` a fetch is waiting for its response, piped into the tracked stream,
cancelled or finished; `ActiveStreams` is the set `activeStreams` of the code, `awaited` the
snapshot `close()` takes of it. `Upstream` picks a kind and a user of the transport:
a caller that may start and close it at any time, or a tool discovery, which connects
through the SDK's client, lists, and closes in its `finally`. The SDK's transports and client
are external. An HTTP error inside the SDK is a dropped request.

### HttpGateway

A request is a handler: `phase` follows `handle()` and `handleModern()` through
their awaits, `bridge` is the bridge the request started, `active` the set
`activeBridges`, `sessions` the map of the route, `hasId` the sessions whose id the SDK has
announced. `Close` and what follows it is the gateway's close: the routes, then the requests that are
still active, then the listener. Each `RouteLoop` takes a snapshot of the route's bridges and looks again once they
closed. `Disconnect` is the end of a client's connection, by itself or because
the gateway destroyed it. The checks of origin, credentials and body are one
refusal. A bridge is what `Bridge` shows of it: it starts or fails, and closes once.

### OAuthLogin and OAuth

`phase` is where `loginOAuthProfile` waits; `sdk` is where the SDK's `auth()` is,
which runs on after the login gave up. `listener` is the loopback server, `held` a
browser connection that delays its closing, `settled` the redirect that was accepted,
`secrets` what the transient provider holds.

In `OAuth` setups create the master key (`FindKey` to `LoadWinner`: a look without the
lock, a second one under it, the store, and its undoing when the lock cannot be
released) and seal a profile with it. A profile is the key it is sealed with, a version, a refresh
token and whether a refresh or a login wrote it. Each proxy's `pc` follows `onUnauthorized`:
lock, read again, ask the server, store, release. The authorization server rotates refresh tokens: `Issue`
makes the token that was used worthless, or does not. Storing is a compare and swap
on the version (`Unchanged`), one action: `FileTransaction` is about what is inside. `mishaps` counts
and remembers crashes, I/O errors and requests that were given up.

### Wrapper, Discovery, RestoreState, Setup

The disk holds the configurations of clients (a server name → an entry), policies
and saved policies, OAuth profiles, routes, a restore record of each server, and the backups of each
configuration. A command line is a sequence of words, written by
`BuildWrapperArgs` and read back by `ParseManagedWrapper`, as in the code: what setup
installs is recognised by parsing it, never by a flag in the model. A session is
one run of `setup` (Add or Manual) or `restore`: it reads (`AddLoad`, `ManualLoad`, `RestoreLoad`), asks
the user, checks under the restore lock that what it read is still there (`PlanIsCurrent`,
`RoutesUnchanged`), and then writes file by file in the order of the code, kind after kind (`SetupRank`,
`RestoreRank`; files of one kind refer to none of the same, so their order among themselves is left open). `moved` holds the files that somebody replaced since the session looked:
the code compares file identities. A write fails, or verification does, or the user aborts:
`RollBack` puts back what was written; `Crash` leaves it.

The rest of the variables is history for the properties. `own` is the entry the user gave a server by hand,
`mine` the policy without setup. `tampered` are owners whose wrapper was edited by hand, or whose
configuration a rollback spared because the user edited it in the middle of the writes, or whose entry
an Add took for the user's though another setup had installed it meanwhile (`Mistaken`). An owner leaves `tampered`
when the user replaces the entry, or when setup or restore goes by a backup that holds the user's last
entry (`Refound`); `broken` are policies
that no longer fit their records, because a command died or was rolled back around an edit of the user's
(`Touched`), a record did not fit or there was none (a wrapper that is adopted, or restored from a backup,
leaves the policy setup once wrote), the user replaced a managed entry by hand, or edited a policy during its write
or deleted one that is managed. `SceneAssumption`
says what a machine looks like before setup and what the user does: no entry of the user's starts the wrapper
or is the gateway's own URL, the names of profiles are plain words, and what is typed into a manual setup is an upstream
without a profile that is no wrapper itself.

## 3. Runs

| Run | Question | Bounds, and why they suffice |
|---|---|---|
| `policy` | can a hidden tool be executed, can an edit that only tightens the policy open what was closed | two tools, two arguments (one of the forbidden names), three values; policies of both defaults with up to two allow rules and one deny rule, rules of up to two conditions; six calls, of which up to two allowed and two refused ones are remembered; any number of restarts with any of the policies. A clash needs one rule of each list and a second allow rule, a rule with one condition more than another, one call, and one edit or two |
| `bridge` | the filter's promises and the refinement, under every interleaving | two messages over two ids (six kinds of request, one id shared by most of them); a violation needs two messages that meet under one id. Server notices pass beside the filter's state and are part of `stdio_proxy` |
| `stdio_proxy` | does EOF lose a response, does the proxy end | two calls, one allowed and one denied, one notice |
| `lock_contention` | mutual exclusion | three calls of two processes: one dead owner and two waiters that race to remove its lock; one I/O error per call |
| `lock_faults` | release, rollback, termination | two calls, two I/O errors each: the code handles one failure of a release and gives up at the second |
| `lock_unreadable` | mutual exclusion when `/proc` cannot be read | violated, see findings |
| `file_transaction` | all or nothing, and is anybody else's work lost | every plan of two changes (new or existing file, write or delete, private or not), two I/O errors or lock timeouts and two foreign writes anywhere: a change that fails, another to undo, and one failure or intruder for each |
| `client_plugins` | is an adapter ever lost, half installed or misreported; can the registry get stuck | three commands of any kind on one package, installed before or not; one I/O error, crashes anywhere: one command to be interrupted, one to recover it, one that holds a lease or makes the next change. Two packages, and two errors, were tried with two processes: packages share the lock, the journal and the sweep only |
| `upstream` | does `close()` end, with nothing left open | three fetches: one piped, one on its way, one aborted at the moment of the close; one start and close of a socket, all orders of its events |
| `http_gateway` | is a bridge ever orphaned, does the close end | two routes; a request that makes a session, one with a bridge of its own, one that uses or deletes the session: every kind of handler against every moment of the close |
| `oauth` | are credentials lost, spoiled, unreadable; does everyone end | two setups (the race for the key) with two proxies (the race for the token), or setup, proxy and login (a refresh against a login); three tokens, three versions, one mishap: two rotations one after the other, and one thing that goes wrong |
| `setup` | can the user's entry and policy always be put back, does everything installed run | three sessions in eight scenes: add, add again and restore; two clients that share a policy; manual setups of an HTTP route, twice; a remote server with a login; two servers, one restored at a time; a wrapper pasted from an old copy; a manual setup that dies over its route, then an add that shares its policy. One crash, abort or edit anywhere, two in the last scene. A cycle needs an add, something in between, and a restore |

Fairness. Safety runs assume none. `EofEventuallyExits` assumes that a started job reaches its
next await and sends settle, that a client's
input ends, that the server answers what it was sent or its transport closes,
and that the closing of a transport settles: the first is what an event loop
does, the others are what the peers of a healthy proxy do; abort and failures
are never assumed to happen. `EveryCallEnds` assumes that file system calls
return, that operations end, and that `AbortSignal.timeout(30 s)` fires; it
assumes nothing of crashes and of pids. `CloseEnds` assumes that a socket that was terminated or
told to close emits its close event (`ws` has a timer for it), that the body of a response nobody wants
can be cancelled, and that the SDK's close returns; servers may stay silent.
`UpstreamsEnd` assumes that a handler whose connection or bridge is gone is let go, that aborted
starts settle, that bridges close when told to, and that a gateway that closes destroys its
connections; clients may stay connected for ever. `EveryoneEnds` assumes that a proxy's file operations
return and that `AbortSignal.timeout` fires; the server need not answer, and the user need not
do anything. `CHECK_DEADLOCK FALSE` is set where the
system really stops: a closed proxy, calls that all ended.

### Findings

1. *An unreadable `/proc` looks like a dead owner* (`lock_unreadable`).
   `linuxProcessStartIdentity` returns `undefined` for every read error, and
   `privateLockOwnerIsAlive` takes that for a different process.

Also observed while modelling; no run is kept for these.

*Bridge.* `docs/architecture.md` promises one audit line per well-formed `tools/call`; a call
with a duplicate id gets none. The continuation of `downstream.send`
(`transports/src/bridge.ts:117`) settles the deferred that is stored under the id *now*, and the
filter frees the id before the response is sent: a client that reads its response and uses
the id again before that send resolves gets the new request's deferred resolved, `drain()`
ends early at EOF, and its response is lost, although `stdio.ts:19` says that piped clients
still receive theirs. A client that never reuses ids is safe (`FreshDrainedMeansAnswered`).
For the same reason a notification may be related to a request that has just been
answered (`bridge.ts:108`); the send of its answer has at least not settled
(`RelatedRequestIsLive`).

*Client plugins.* A pointer that cannot be read for a moment makes the sweep delete the module
graph of a valid adapter (`cli/src/client-plugins/module-graphs.ts:201`; with
`PointersReadable = FALSE`, `WholeOrRecoverable` fails). A promoter's confirming visit takes its
result from whatever journal it finds, so it reports a failure if that of
another, crashed installer was reverted, though its own promotion was confirmed.
A recovery in another process that meets an I/O error may revert a promotion whose promoter
then reports "installed" (`HonestOutcome` therefore assumes `faults = 0`). An
adapter that is broken before an update, together with a crash of that update, leaves
a journal that no command can recover.

*HTTP.* A session whose id is announced after its bridge closed stays in the
map of its route: the clean-up on `bridge.closed` (`http.ts:119`) has already run
(`late` excuses it).

*OAuth.* When a proxy cannot release the profile's lock after a rotation, the rollback
(`provider.ts:72`) writes back a profile whose refresh token the server no longer
accepts (`TokensSurvive` excuses it as a mishap). A key file that is taken back because its lock could not
be released leaves a profile unreadable that another setup sealed with it meanwhile
(`keyUndone`). A login during which the profile was refreshed fails its compare and swap after the
user has logged in; a refresh that a login overtook tells the user to log in
although the new credentials are good. A waiter gives up on the profile's lock after the same 30 s that
the holder gives its request. `auth()` runs on after an abort: it may still save a verifier
and print its URL. A connection a browser keeps open delays the end of a login.

*Setup and restore.* After a crash between the policies and the configurations the next setup records
the policy setup itself had written as the one "before" (`broken`). A crash after a
route was written leaves a route that no restore removes, and a later manual setup of
that name is refused. A record for an entry that the user has replaced by hand blocks
every takeover of its policy; a "created" record left by a removal by hand makes setup call the user's own HTTP server of that
name unsupported. A wrapper pasted elsewhere by hand has no record and loses its policy when
the recorded one is restored. A rollback spares a configuration
the user edited while setup wrote it, but removes the policy it refers to (the documentation warns not to edit then).
A wrapper that no record fits is adopted with, or restored from, the newest backup that fits it,
which may be older than the entry the user last gave the server. An Add compares the entry it has read with the one
there under the lock, not what happened between: when it read an entry of the gateway's without a
record and another setup has written the same entry with one since, it records that entry as
the user's. A manual setup of `mcp-restrictor` itself is refused only after the writes, by the
verification, so a crash between the two leaves it installed. The answers of a server are constants here: a
server that answers discovery otherwise when it is added again gets another wrapper, and a
crash between the state and the configuration then leaves a record that does not match the entry.

## 4. Proofs

The assumptions are those of the modules (`PolicyAssumption`, `PatientAssumption`,
`PoliciesAssumption`, `ClientCallsAssumption`, `BridgeAssumption`, `LockAssumption`, `PluginsAssumption`, `TransactionAssumption`,
`RequestAssumption`, `OAuthAssumption`, `SceneAssumption`, and `NoneAssumption` where a module has one):
typing of the constants and distinctness
of the marker values, nothing else unless named here. The constants are otherwise
arbitrary: any number of messages, ids, tools, calls, processes, requests, routes,
fetches, proxies, tokens and files, any plan of changes, any bound on faults and writes.

* `BridgeProofs`, the policy. Both theorems follow from one inductive invariant, `Recorded`: what
  was executed the policy authorizes, what is visible it shows, and what the history remembers as
  refused or hidden, also from earlier proxies, it still refuses or hides. The last part is kept
  by a restart because a policy that tightens another authorizes and shows no more
  (`TighterAuthorizesLess`, `TighterShowsLess`): a rule with fewer conditions matches whatever
  one with more matches (`CoveringMatches`), and a deny rule comes before the allow rules and the default.
  `HiddenNeverExecuted` also needs that `Authorize` implies `Discover`: a rule without
  conditions matches every call.
* `BridgeProofs`, the bridge. `Provenance` (how far a message got tells what was done for it)
  is inductive with `TypeOK` and gives `AuthorizedCalls`. `DistinctIds` and
  `Remembered` are proved together: a new request passes only if its id is free, and
  an id is free only if no outstanding request has it, which is exactly
  `OutstandingAreRemembered`; that in turn is kept because whoever frees an id is
  the only outstanding request that has it. `FilteredLists` follows: the
  method found under the id of a response is the method of its request.
  `KeepsPromise` is the refinement `ImplementsRestrictor`: each step of the bridge is one
  of `Restrictor` or a stutter, because the ids the abstract filter has taken are owned by
  requests that are still on their way (`TakenIdsAreOwned`), so that a message that passes,
  is blocked or is answered here has the same fate there. `VersionFirst` needs that the
  transports learn the version no later than the filter's `initialize` is through (`Negotiates`).
  For the stdio proxy, `DrainedIsAnswered` and `RelatedIsLive` say which deferred
  a request waits on: with fresh ids one request has it (`Paired`), a send that
  has settled has settled it (`Settled`), and EOF is answered by the drain alone (`DrainsAtEof`).
* `PrivateLockProofs`. `Exclusion` rests on `Exclusive`: a call past its link
  owns the lock file; the call between `mkdir` and `rmdir` owns `.reap`; a waiter that
  found a lock dead and confirmed it *while holding* `.reap` knows that the file
  is still the same, because only a dead owner or the holder of `.reap` could
  have removed it. It is proved under `Trusted == Readable \/ ~Container`, the
  negation of the finding. `Released` and `Undone` rest on `Ledger`, which ties the
  steps of a failed release to the I/O errors it took to get there.
* `ClientPluginsProofs`. `LeasedGraphsStay` needs that only the holder of the lock is inside
  the registry (`Exclusive`), that the steps of a promotion belong to an install whose own
  module graph has not been there before (`Visits`, `Fresh`: staging does not
  overwrite a leased graph), and that the journal and the container that a step acts on are
  there (`Journaled`, `SetAside`). `Effect` shows for each action that it leaves the
  other processes apart and arrives at a step whose conditions hold; `Keeps`
  concludes from that alone. Nothing is assumed about `PointersReadable`.
  `Survival` and `Recovery` need to know where everything is (`Whereabouts`). Between promotions a
  package has one active container and that is whole (`OneActive`, `ActiveWhole`); what the
  journal names is whole while it is the backup (`BackupWhole`); a package that is installed and
  that nobody removes is active or is that backup (`Kept`). While a process works, `Position` says,
  step by step, what its recovery, promotion or removal has already moved. These are proved under
  `PointersReadable`, as they are false without it (section 3).
  `Honesty` and `Tidiness` hold for as long as no file operation fails, whatever `PointersReadable`
  says (a pointer that cannot be read is such a failure), so their invariant `Honest` is kept until
  `faults` leaves 0. A promotion that was accepted stays `Pending`, in the journal and whole, until a
  recovery in this or another process confirms it (`Sound`). Without a crash, besides, commands go
  `Straight` through their visits, and every journal, lease, stage, backup, container set aside
  and module graph without a container belongs to a step that some process is at (`Tidy`): when
  all have ended, there is none.
* `FileTransactionProofs`. `Consistent` is inductive with `TypeOK`. `Control` ties a step to the kind
  of its change, `Locks` says that a private file is worked on under its lock, `Dated` that a
  snapshot is of a write that has happened, so that a later write is told apart from it.
  `Progress` is the heart: every change before the current one is kept and every later one is as
  it was (or others wrote there, or its rollback was reported), and at the current one the step says which.
  `Guarded` says what is at a file that is about to be replaced, `Saved` what the backups
  hold. A step of the transaction touches the file of the current change only (`Transacts`), one of
  the others a file that is not locked (`Elsewhere`), so a case has to look at one file and at how
  the current change moves. `Atomicity` and `BackupsFirst` follow; `Respect` (no file that others
  wrote is replaced or removed) comes from `Guarded` and `Dated`. `Containment` keeps accounts over finite
  sets (`Bounded`): the paths that others wrote do not outnumber the writes, and
  those lost to a failed rollback, those whose lock is left behind, counted
  twice, and the retry in progress do not outnumber the faults.
* `ClosingProofs`, the gateway. `NoOrphanBridge` and `SessionsEndWithBridges` follow from `Handled`: a bridge
  belongs to the handler of its request until it has an id, and then to the sessions,
  which lose it only when it closes. For `CloseLeavesNothing`, `Shutdown` says what each
  step of the close leaves: the abort of every start comes first, so no bridge joins
  those the close has seen, and when the routes are done the handlers it waits for are all there are.
* `ClosingProofs`, the upstreams. `ClosedMeansGone` needs, of a WebSocket, that the transport holds its
  socket exactly while a close event is to come (`Socketed`); of HTTP, that no fetch
  starts once the lifetime is over, which happens before `close()` takes its snapshot (`Streamed`); of
  a discovery, that the client lets go only of a transport that is closed or closing (`Tended`).
* `OAuthProofs`. `Keyed`: whatever was read or stored is sealed with the key, which only a key
  file that is taken back replaces; that is `ProfilesDecrypt`. `TokensSurvive` and
  `LoginRequiredIsMeant` rest on `Secured`: as long as nothing goes wrong, the stored token is
  valid, or its successor is in the hands of the proxy that holds the lock and whose compare and
  swap will succeed. To keep it one must know that only the holder has a request at the
  server (`Tied`), and that the token of a login is one nobody has used before (`Bounded`, `Fresh`).
  `LoginStays` is proved from the same invariant, `LoginLeavesNothing` from `Orderly`, the login's own part.
* `SetupProofs`. `RoundTrip`: what `BuildWrapperArgs` writes, `ParseManagedWrapper` reads back as it
  was, for every policy and every upstream that either accepts. All that setup,
  restore and the gateway know of a wrapper comes from its words. No induction is needed: the words are
  pairs of an option and a value (`WordsRead`), and the options are written one after another, each
  filling its own row of the reader's table and no other (`AppendedReads`, `GivesEach`).
  `GatewayLoads`: a manual setup chooses its port by routes it read without the lock. That is
  sound because, if none of the route files has moved since, they are still those the port was
  chosen by (`PortStands`), and the plan under the lock looks exactly at that. A write may
  end anywhere, with any part of the plan written or put back: all the routes that may then be
  left, those before and those after, agree already when it begins (`StakesAgree`).
  `OwnPolicyComesBack`: a restore writes what a record says was there before setup, and the
  record may be the work of many commands, some of them cut short. The invariant is `Kept`. While nobody
  writes (`AtRest`) each entry fits its record (a record names the policy the user had, and without one the entry
  is the user's or was pasted), and each policy the records that name it (without one the content is the user's). A
  session between two writes leaves a disk that is neither the old one nor the planned one; what holds
  then (`Works`) is that both of these are at rest, that each file is as on the one or
  as on the other unless it has moved, and that the entry fits the record beside it, which
  is what the order of the writes is for (`DueIsInOrder`). From that, `Finish`, `RollBack` and
  `Crash` lead back to `AtRest` (`FinishRests`, `RollBackRests`, `CrashRests`). What a session has chosen
  before it takes the lock (`Chooses`) survives everybody else's steps, unless files it looks at move.
* `EntryProofs`. `FoundAgain`: what `discoverSetupServer` settles on, it settles on again, whichever client's candidates
  it goes by. So adding an installed server again writes the wrapper that is there, and a crash between
  its record and its entry leaves the two together.
  `NothingDangles` (`Runnable`) rests on that. Its invariant is `Serving`: while nobody writes, a wrapper
  that is not `tampered` is the one its record installed, its policy and its profile are there (`Fits`), and so are those of
  a route on record (`Keeps`); `Served` says this of every owner. While a session writes (`Lands`), that holds of
  the disk as it was and as it will be, in so far as the session still may write or take back the file, and of
  what the order of the writes has put beside each entry and each route. Before it takes the lock (`Settles`), what a session
  has chosen still answers discovery as the entry it was chosen from, or names a profile of its own.
  `EntriesComeBack` (`Recoverable`): an entry is the user's last, or restore is offered for it by
  its record and puts that entry back. The invariant is `Redeemable`, on top of `Kept` and `Serving`. While nobody writes each
  entry `Returns`. A setup writes the record before the entry and a restore the entry before the
  record, so a write meets an entry beside either record: `Waits` says that the entry that is there is
  safe beside every record and route that may come before it is replaced, `Holds` that the
  new one is beside every record that may still be there after. A rollback
  that spares an edited file turns its owners `tampered`. `Claims` is what a session must not
  have chosen: an upstream that is a wrapper, which would be recorded as what to put back, or a
  backup for an entry that its record fits (`LegacyIsTampered`). What backups hold need not be
  known, since going by one clears `tampered` only if it holds the user's entry. TLC has
  checked `Kept`, `Serving` and `Redeemable` on the scenes of `setup`.

TLC only: liveness (`EofEventuallyExits`, `EveryCallEnds`, `CloseEnds`, `UpstreamsEnd`, `EveryoneEnds`)
is outside the prover, and so are ENABLED and induction over data. Every invariant and every step
property of a passing run is stated by a theorem.
The type invariants are proved or were checked with the runs' instances; no run repeats them.

## 5. Not modelled, and the plan

* YAML, JSON-RPC parsing, the MCP SDK, `ws` and `node:http` are libraries, modelled from their use.
* The text codecs of TOML and JSONC (`setup/codex`, `setup/opencode`, `setup/json.ts`)
  and the presets (`generated.ts`) transform text and keep no state.
* Of setup: hints of an explicit OAuth configuration, configurations that are only
  shown, files that are the same by a hard link, OpenCode files that shadow each other, restore
  records of older schema versions.
* Argument parsing, prompts and output; the wiring in `commands/run.ts`, `proxy.ts` and `client.ts`.
* Encryption, key derivation, the validation of URLs and of certificates.

All modules of section 2, their runs, and the proofs of section 4 are done. Next would be the parts
above that keep state: the configurations that are only shown, and the older record schemas.
