# Verification of weave-agent core

TLA+ models of the agent, checked with TLC on small instances and, for the
results listed under *Proofs*, proved with TLAPS for every value of the
constants. Paths are relative to the repository root (`src/` here).

## The system

`weaveboot` is the root process: it promotes a staged core binary, runs it, and
reverts to the previous version when the current one cannot stay up. `core`
supervises *modules*: separate processes it launches, hands a connection, polls
for health, watches for keepalives, restarts with backoff and gives up on after
a burst of crashes. Operators install, upgrade and roll back modules through the
control socket; the lifecycle manager fetches a signed channel manifest, stages a
version, swaps the running module, gates it on health and records the outcome in
two marker files, `current` and `previous`. Modules are built on an SDK and use
core's host services: storage, policy, events, logging, and transport to the
gateway and to the hypervisor, with an offline queue.

| part | code | model |
| --- | --- | --- |
| supervisor | `internal/supervise/supervisor.go` | `Supervisor` |
| one launch: sockets, privileges, token, handshake | `internal/supervise/launch.go`, `spawn_unix.go`, `sdk/handshake`, `sdk/ipc` | `Launch` |
| lifecycle manager | `internal/lifecycle` | `Lifecycle`, its gate `HealthGate` |
| channel client, manifests and signatures | `internal/lifecycle` (`fetchChannel`), `internal/manifestverify`, `internal/verify/channel.go`, `sdk/manifest` | `Channel` |
| weaveboot | `internal/weaveboot` | `Weaveboot`, its version order `Semver` |
| transport mux and offline queue | `internal/transport/transport.go` | `Transport`, `Inbound`, the promise `MessageQueue` |
| hypervisor channel and its authentication | `internal/transport/hypervisor*.go`, `sdk/hvchannel` | `Hypervisor` |
| store, policy engine, identity | `internal/store`, `policy`, `identity` | `Store`, `Policy`, `Identity`, composed in `Services` |
| event bus | `internal/eventbus` | `Patterns`, `EventBus` |
| host services | `internal/hostserv` | the streams in `HostStreams`, the calls in `Services`, the token gate in `Launch` |
| module SDK | `sdk/modulesdk` | `ModuleSDK`, its log handler `LogStream` |
| module test harness | `sdk/modulesdk/testkit` | `StubCore`, `StubHost` |
| sysinfo module | `modules/sysinfo` | `Sysinfo` |
| apt repository tool | `packaging/apt/aptrepo` | `Aptrepo` |
| core wiring, control socket | `internal/core`, `internal/controlsock` | where they meet the components |

How the models meet. `Lifecycle` takes from `Supervisor` that `Replace` ends the
old version before the new one is added (`StopIsComplete`), and keeps of the
supervisor only the version it has registered; it takes from `HealthGate` that a
gate that passes has heard HEALTHY, and keeps of the gate whether the bits can
pass it. `Supervisor` takes from `Lifecycle` that one request at a time is inside
an operation on a module, and from `Launch` that a launch succeeds, fails or finds
an unsupported protocol. `Weaveboot` sees of core its readiness signal and its
exit; `Semver` justifies that versions are numbers there. `Services` composes
store, policy and identity over one database, as `core` opens them; `HostStreams`
composes the bus and the inbound fan-out in one process.

Some MC modules explore several components that share no state in one run
(`MCRelease`, `MCHost`, `MCLifecycle`, `MCGoverned`, `MCModuleStreams`,
`MCModuleHarness`). There a behaviour is a
behaviour of one of them while the others stay in an initial state: the states
are the sum of the components' states, not the product, and nothing is claimed
about an interaction between them.

## Modules

**Supervisor**, one module id. A member of `Runners` is a `runner` struct with
its goroutine: `pc` is its place in `run`, `launch`, `monitor`, `stop` or `kill`,
`st` its reported state, `proc` its process, `crashes` the breaker's list. A
member of `Callers` is a request that holds the lifecycle lock while it calls
`StopModule`, `Add` or `Replace`; `Main` is core's goroutine, which adds at boot
and calls `Wait` at shutdown. A struct nothing refers to is reused, so the number
of `Add`s is not bounded. Time is a `Tick`, and an instant is kept as its age.
Where a `select` has two ready cases both actions are enabled.

**Launch**, one module's launches one after the other. One action per step that
can fail: the socket directory and its owner, the host services' listener, the
token, the credentials, the spawn, each write of the child to stdout, the parse
of the first line, the client and Init. The account a module drops to may appear,
change or go between any two steps; processes of earlier launches, and of a core
that died, stay and dial, with the token of their own launch in their environment
(`env`). A token is 16 random bytes: the model draws one that no process still
holds. `Answered` says whom the host services of a launch answer: a peer whose uid
the listener admits, with this launch's token.

**Lifecycle**, one module id. State: the version directories (absent, partial,
good or bad bits), the two markers, what runs, the install lock and each
request's locals. One action per step another actor, or a death of core, can
come between: locking, staging, removing the old directory (not atomic), the
rename, `Replace`, the gate's verdict, each marker write, each deletion of
`prune`, the answer. `Crash`, `Boot` and `BootFails` are core's death and its
boot scan, `CtxEnds` the client going away. Any file operation may fail. Two
history variables delimit the properties: `lost` says that a marker write or a
deletion failed, `overwrote` that a version a marker names was installed over
itself.

**HealthGate**: `activate`'s gate, which samples the state and the health the
supervisor reports, against a runner that is polled, loses polls, crashes and
relaunches. The recorded health survives a relaunch, as in the code.

**Weaveboot**. State: staging, versions, markers, the readiness file, and the
locals of `Run` and `promoteStaged`. One action per file operation and per
decision, `Die` between any two of them; there may be no verifier, and then nothing
is promoted. Any core may exit before it has signalled readiness or stayed up; a
bad one does neither. Two history variables follow the runs themselves, not the
marker: `proved` (this run did either) and `early` (runs in a row that did not).
`restaged` says that an installed version was staged again. **Semver** is `higherSemver` and the
scan of the staging directory: a version is a sequence of components, each with
its number, if it has one, and its rank as text.

**Transport**: `Send`, `enqueue`, `enforceCap`, `flush`, `Flush` and `restore`,
each store transaction and peer call a step; a death of core drops the threads and
keeps the store. A peer call may be refused, answered, or received with its answer
lost. A key is its number, and what a drain or a cap has listed is the set of keys it
has not come to (`todo`), taken oldest first as the sorted listing is.
**MessageQueue** is what `Send` does with a message: an answered one was received,
is kept, was deleted over the cap or as unreadable (`discarded`), or was not taken
by the store (`unstored`), and leaves the store no other way. **Inbound** is `Receive` and
`deliver`, with the window between copying the subscribers and sending to them.

**Hypervisor**: the guest's read loop and sender, its challenge-response gate and
the host on the other end of a wire that keeps frames across restarts of core,
repeats, loses and garbles them. A frame is its kind, with a key and a nonce for
a response.

**Store**, **Policy**, **Identity**, **Services**. A sealed record is the key it
was sealed under, the place it is bound to and its value. `Services` starts core
step by step (key file, store, identity, enrolment, policy) and lets it die at
any of them; GateWeave publishes documents, may be restored from a backup, and
assigns device ids. An answer that is not GateWeave's may carry any id, with an
assignment GateWeave signed for another device or with none. Module calls are puts, deletes and policy streams.

**Patterns**, **EventBus**, **HostStreams**. A topic is a sequence of characters
from a small alphabet, a pattern may end in a star. Publish numbers an event under
the topic's counter and offers it to every matching subscriber; a full one counts
a drop. The stream handler takes an event and then sends it.

**LogStream**: the SDK's log handler and the handlers derived from it, each with
its own mutex and its own copy of one stream, and core's end of it. `taken` are the
records Send has returned nil for; `raced` says that two sends on one stream
overlapped, which gRPC leaves undefined: such a record reaches core or does not.

**ModuleSDK**: one module process from boot to exit. A member of `Calls` is an RPC
of core in flight; `mu` is the server's mutex, `pc` the place in the handler. Jobs,
the ping loop, the host connection and its watcher run beside them. Callbacks of
the module may fail, a connection may drop, and a redial may fail while core is
there.

**StubCore**, **StubHost**: the test harness's launch with its reader goroutine,
timeout and exit codes, and its policy watch and event bus with callers that
overlap.

**Sysinfo**: configuration, policy documents on their way, the collection job
with the timer it set, and the health it reports.

**Channel**: a publisher signs and uploads the files of a bundle one by one, core
fetches them in whatever mix is there, checks the chain, compares and records the
sequence, downloads, stages, and checks again at launch. A signature is who
signed which file in which context. `raced` and `lost` are history variables: two
requests overlapped in the unlocked section, a store operation failed.

**Aptrepo**: build, sign and verify over a directory earlier builds filled, each
file written in a step that may fail, while packages are rebuilt.

Definitions named with an underscore and a suffix (`WgZero_Early`) are mutations
of the definition they precede, used to show that a property depends on it.

## Runs

| run | what it checks | states |
| --- | --- | --- |
| `release` | `OneLiveProcess`, `StopIsComplete`: one live process per module, a returned stop is complete. `LaunchRateBounded`: the breaker bounds the launch rate. `RunsAsItsAccount`: a launch runs its process under the right account, answers none that an earlier launch left and, if the account stays, answers its own. `LineIsFaithful`: core acts on the first line the process wrote. `ChainHolds`: from the root's signature to the running process. `AcceptsNoOlder`: no manifest below one accepted. `BuildInstalls`: a successful apt build matches and, with a key, is signed as built. `PicksHighest`: the highest staged numeric version is picked in whatever order it is found | 1.4 M |
| `host` | `CurrentBoots`: `current` names a core that is there. `RevertIsEarned`: a version is left only after a threshold of early exits in a row. `BadIsLeftIfPossible`: a bad one is left when there is another. `OpenedByThisHandshake`: the hypervisor channel opens only to a handshake of this connection. `HostGetsIn`: the right host always gets in again | 279 k |
| `supervisor_live` | `StopReturns`, `ShutdownCompletes`, `HangIsEnded` | 128 k |
| `lifecycle` | `CurrentIsSound`: after a death at any step `current` names a complete version that can pass its gate. `RestoredUnlessCancelled`: a failed swap is undone unless its client left. `RetainsTwo`: an upgrade retains exactly two versions. `GateMeansHealthy`: a passed gate heard HEALTHY and waited the stable period. `RequestsAnswered`: every operation releases its lock | 403 k |
| `transport` | `NoDoubleDelivery`, `DrainsInOrder`, `QueueBounded`, `SendReturns`, and `KeepsPromise`: the mux implements `MessageQueue` | 234 k |
| `services` | `StoreKeeps`, `IdentityKept`: records, the device key and the enrolment survive a death at any step, and a release build answers only with an id GateWeave has signed. `ViewIsPublished`, `StreamCatchesUp`: a policy stream carries published documents and catches up. `PolicyGoverns`: the interval, cadence and health of sysinfo follow the policy | 270 k |
| `host_streams` | `StreamsFaithful`: listed topics only, in order, losses counted. `StreamsMoveOn`: no receiver stops the read loop, and events arrive. `LogsAccounted`: a log record is on stderr unless Send took it, and then at core or on its way while the connection stands | 374 k |
| `module_sdk` | `CallbacksInSequence`: Init, Start and Stop one at a time and in order. `RuntimeMovesOn`: an orphan exits, a shutdown ends the process, pings resume. `HarnessSettles`, `StubServesAsCore`: the test harness leaves nothing behind and serves as core does | 247 k |
| `host_streams_closed` | *violated*: `GoneReceiverIsHarmless` | |
| `channel_race` | *violated*: `MarkNeverFalls` | |
| `transport_refused` | *violated*: `QueuedIsKept` | |
| `log_lost` | *violated*: `LogNeverLost` | |

A property that several facts make up (`CurrentIsSound`, `ChainHolds`,
`StreamsFaithful` and others) is defined as their conjunction, or lists them as
conjuncts; the facts the proofs are about keep names of their own.

The four violated properties are sentences of the repository, quoted in
`PROJECT.json` under `findings`:

- `deliver` copies the subscriber channels under the lock and sends after it;
  `Receive` may close one in between, and a send on a closed channel panics even
  in a `select` with a default case.
- `fetchChannel` reads, compares and writes the anti-rollback mark without a
  lock: of two concurrent installs the one with the lower sequence may write
  last, and the mark falls.
- When the store does not take an offline message, `enqueue` logs it and `Send`
  answers `delivered = false` without an error: "false when queued"
  (`transport.proto:42`), but it is nowhere.
- The log handler is done with a record when `stream.Send` has taken it. If the
  connection then ends, it is neither at core nor on stderr: "logging must never be
  lost because the wire hiccuped" (`loghandler.go:16`).

### Limits of the properties

Where the code does less than a reader may expect, the properties say so in their
conditions. The models have the behaviour in each case:

- *Supervisor*. `Wait` takes a snapshot of a registry from which `StopModule` has
  already removed the runner it is draining, so core can exit under a module that
  still drains. When a stop and the exit of the process are both ready, the exit
  may be accounted as a crash.
- *Launch*. A core that dies before `Init` leaves a module that never notices. The
  account is looked up three times; if it changes in between, the module may be
  unable to listen or be refused by core, and `RunsAsItsAccount` asks for both only
  of a launch during which it stayed (`steady`). `authorizeModulePeer` admits
  core's real uid while `dropCreds` asks for the effective one; the model has one
  uid, as a core that is not set-uid has.
- *Lifecycle*. `promote` rolls back under the request's own context, so a client
  that leaves during the gate leaves no version running. Reinstalling the current
  version with bits that fail the gate skips the rollback, and a death while its
  directory is replaced leaves `current` naming nothing (`overwrote`).
  `lifecycle.go:297` promises to "retain exactly N-1", while the error of writing
  `previous` is dropped and `prune` then deletes what the stale marker names
  (`lost`). `spec.md:207` says the new process is healthy before the old one
  drains; `Replace` stops the old one first. A version that answers one poll,
  crashes and hangs in its next launch can pass the gate on the health of the
  process that is gone.
- *Weaveboot*. The first promote over a packaged core records no `previous`, so a
  bad first core is retried for ever; two bad cores are reverted to each other
  for ever; the crash count survives a promote, so that early exits of the version
  before count towards the revert of the new one, and `RevertIsEarned` says in a
  row, not of one version. Without a verifier a staged core is refused on every
  round and stays staged. `higherSemver` is not transitive
  beyond dotted numbers (10 above 9, 9 above 10-rc, 10-rc above 10), and a
  pre-release counts as higher than its release.
- *Transport*. A death between a delivery and its deletion delivers again. The
  offline queue is not drained when the hypervisor channel authenticates, only
  when its device is attached and by the next successful send. A message stored
  after a drain has listed the queue waits for the next drain and may arrive after
  messages with higher ids. Listing is a read of an open database and does not fail
  in the model; in the code a failed listing skips the cap or the drain.
- *Hypervisor*. Replies carry no correlation: the host of the model waits for a
  quiet wire before it tries again, an impatient one can stay one reply behind.
- *Identity*. The assignment that GateWeave signs names the device id and the
  tenant, not the key, and `verifyAssignment` cannot tell one made for another
  device. `IdentityKept` therefore says that the id of a release build is one
  GateWeave has signed, not that it was signed for this key.
- *Policy*. A failed fetch only lengthens the wait for the next, which has no
  length here. A gateway restored from a backup that counts up to the revision core
  holds, with other content, is taken for no change.
- *Events*. The patterns of a manifest are not validated; `OnlyAllowed` assumes
  that a star is at the end of a listed pattern.
- *Logging*. Besides the records lost with a connection, derived handlers send on
  one stream under mutexes of their own. gRPC does not allow two sends at once;
  after such a pair `LogsAccounted` asks nothing about what core has.
- *SDK*. A surface declared after Init is accepted and never reported.
  `awaitDisconnect` takes the first `TransientFailure` for the death of core, also
  when a redial failed and core is there, while its comment says that only "a
  genuine loss (core exited) — not a transient blip — triggers the callback"
  (`hostclient.go:86`). A stream or a connection of the model may drop at any time,
  so the module may end under a live core; that it ends under a dead one is
  `RuntimeMovesOn`.
- *Sysinfo*. A withdrawn policy leaves its interval in force, an interval of zero
  ends the job for good, and a watch that ended is not opened again.
- *Channel*. The manifest is fetched before the module lock is taken, so an
  install that waits may install an older version after a newer one. The topics a
  module subscribes to are part of the signed entry (`channel.go:68`) and are what
  the host services let it hear, but `matchesSignedGrants` does not compare them:
  the entry of the model has none, and `ChainHolds` says nothing of them.
- *Aptrepo*. A rebuild that fails half way leaves packages the old index does not
  describe; an unsigned rebuild over a signed directory leaves the old
  `InRelease`, which `verify` does not compare with `Release`: a package built again
  in between is then offered under a signature that does not cover it, and `verify`
  passes. `BuildInstalls` asks for signatures of builds with a key only, and for
  `verify` to pass of those and of unsigned builds into an unsigned directory.
- *Harness*. The pattern `*` alone matches nothing there, events carry no sequence
  and may be delivered in another order than recorded; a module killed after a
  refused line is never reaped, and the temporary socket directory of every launch is
  left behind.

### Bounds

- *Supervisor*: two structs are enough for an old and a new runner of one id,
  and structs are reused. Two requests contend for the lock. A burst of 3 in a
  window of 2 ticks lets crashes expire, accumulate and reach the limit; two
  strikes separate a first failed poll from the last. The liveness run has one
  request, a burst of 2 and a window of 0, without symmetry.
- *Launch*: two accounts, so that one can replace the other between two looks;
  two processes are a launch and one that an earlier launch, or a core that died,
  left. `MaxLine` is the length of a good line, so that one more is a flood.
- *Lifecycle*: three versions are the current, the previous and the one installed,
  which makes `prune` delete. Two requests contend. Operations and crashes are not
  bounded; a behaviour has failed marker writes or versions installed over
  themselves, not both (`MCOneKind`), since after either most properties are
  silent. *HealthGate*: a timeout of 5 samples and a stable period of 2 let the
  period start anew; two launches let a health value outlive its process.
- *Weaveboot*: three versions, the threshold of the code (3); `MaxStaged`,
  `MaxDeaths` and `MaxBootFaults` bound the updater, the deaths and the failed
  operations. *Semver*: six names on which the order of numbers, of text and of
  length disagree.
- *Transport*: two sends and a flush, two peers, a queue of one message, so that
  the cap and the drain meet; two faults (death, lost reply, store failure).
- *Hypervisor*: five challenges, two frames in and one out, two faults.
- *Services*: two modules, one of them governed; three revisions; two faults,
  enough for a failed write followed by a death. *Sysinfo*: intervals 0 (which
  ends the job), 1 and 3, one document on its way.
- *HostStreams*: one event stream with a channel of two, two receivers with
  buffers of two and three messages, so that buffers overflow; `MaxLoad` bounds
  what is in flight at once. *LogStream*: two derived handlers, three records; one
  and two are enough for the violation.
- *ModuleSDK*: two overlapping calls, one job, two faults. *Stubs*: two callers,
  watchers and listeners, channels of one.
- *Channel*: two requests, two signing keys, two instants, one fault. *Aptrepo*:
  two packages, two builds over each other, a package built again once.

Symmetry (of runners and requests) is used in `release` only, which checks no
liveness. Deadlock is checked except where the system may stop: a module process
and the harness end, all sends of `Transport` are made, a stream or a connection
has ended.

### Fairness

- *Supervisor*: goroutines are scheduled, every wait of `launch`, `stop` and the
  backoff has a timeout, Go's `select` picks at random among ready cases, a
  killed process is reaped, time passes. Nothing obliges a request, a shutdown, an
  exit, an answer of a module or a failed poll to happen: a hung module may answer
  every poll, so only the watchdog is sure to end it.
- *Lifecycle*: an operation goes on while core is up, since each of its waits has
  a deadline, and weaveboot starts core again.
- *Weaveboot*: its loop goes on, and a bad core exits.
- *Transport*: a started call proceeds: a peer call is bounded by its 30 s
  timeout, bbolt transactions end, Go's mutexes do not starve a waiter.
- *Hypervisor*: the guest's goroutines run; the host reads, retries on a quiet
  wire and, believing itself in, goes on asking. These are strong where a full wire
  disables them again and again. No module is obliged to send.
- *Services*: core is restarted, its start, its poll loop and every stream handler
  go on.
- *HostStreams*: the read loop and the event streams run; receivers need not read.
- *ModuleSDK*: handlers, goroutines and `serve` are scheduled, callbacks and jobs
  return, a handler that could take the mutex and is not passed over gets it. Strong
  fairness for a job's cancellation only (its timer may be ready at the same time,
  and `select` picks at random). None of core, signals or failures.

## Proofs

Eight modules hold the proofs. Each extends the components it is about, proves an
inductive invariant of each (`Init => Inv`, one case per action for the step) and
draws the theorems from it. A proof module may hold the proofs of several
components that share no state; the theorems of each are about its own
specification (`ServicesSpec`, `LaunchSpec`, `AptSpec` and so on).

Every safety property and every action property that a passing run checks is also
proved. The constants are constrained only by the named `ASSUME` of the component:
numbers are numbers, a value that stands for "none" is none of the values it
stands beside, limits that the code never leaves at zero are not
zero. Where an `ASSUME` says more, it is a fact of the code: a module id has
no dot, so its place in the store is not core's (`ServicesConstants`); a service
account is not root (`LaunchAssumption`); a listed pattern has its star at the end
(`EventBusConstants`), which `OnlyAllowed` needs and nothing validates; no topic
is a star alone (`StubHostAssumption`); a version has at most three components
(`SemverConstants`), since the reference it is compared with reads three.

- `SupervisorProofs`, for any runners, callers and limits: `TypeCorrect`,
  `AtMostOneProcess`, `StopComplete`, `DownHasNoProcess`, `TerminalFinal`,
  `LaunchRateAlwaysBounded`. That there is one live process is not inductive by
  itself. `Inv` adds that the lock admits one request (`LockDiscipline`), what the
  registry holds at each place of an operation (`RegistryDiscipline`), that every
  goroutine not yet finished is registered or waited for (`RunningIsOwned`), and
  what a goroutine's place says of its process and state (`PositionDiscipline`).
  Two live processes would be two goroutines, one registered and one waited for,
  but while a request waits the registry is empty. The launch rate needs an
  invariant of its own (`Pace`): the launches of the window are at most the
  breaker's crashes and the one under way, and paired from the latest backwards
  each crash is no older than its launch, so that trimming the crash list never
  leaves a launch of the window uncounted.
- `LifecycleProofs`, for any requests and versions: `TypeCorrect`;
  `CurrentAlwaysResolves`, `NeverBroken`, together `CurrentAlwaysSound`, and
  `SwapUndone`, whatever fails; `PreviousAlwaysResolves`, `RunningRecorded` and
  `UpgradeRetains` until a write fails. What is inductive is `overwrote \/ Inv`.
  `Inv` says for each place of an operation which version it activates and that
  the one it replaced is still complete (`Position`), what runs (`RunningAt`) and
  how it ended (`OutcomeAt`). `GatePassesHealthy` is about `HealthGate`, for any
  timeout and stable period: a recorded HEALTHY was heard, and no bad sample is
  younger than the start of the stable period that is running.
- `WeavebootProofs`, for any versions, threshold and bounds: `TypeCorrect`,
  `RevertAlwaysEarned`, and `NeverStranded` until an installed version is staged again.
  `Inv` adds that the count is below the threshold except where `revert` is
  called and that the core running is the recorded one (`Loop`), that it never
  exceeds the early exits in a row (`Earned`), and that a
  staged version is not installed yet (`Tree`). Three components around it have
  their proofs here too:
  - `Semver`: `AlwaysPicksHighest`. On numeric versions `higherSemver` is the order
    of their weights, and the pick has at least the weight of each entry considered.
  - `Launch`: `AlwaysRunsAsItsAccount`, `LineAlwaysFaithful`, for any accounts,
    tokens, outputs and processes. The token of a launch is in the
    environment of its process and of no other (`TokensApart`). As long as the
    account has not changed, directory, listener and process agree on it (`Agreed`);
    until a line is reported the buffer and what is still to be written are what the
    process says (`LineInv`).
  - `Aptrepo`: `BuildAlwaysInstalls`. While no package changes under a build, what it
    has listed is what it serves, once copied (`ListedIsServed`); and the place a
    build has reached says which indexes and signatures are its own (`FilesInv`).
- `TransportProofs`, for any calls, flushes, peers, cap and faults: `Refinement`
  (`Transport` implements `MessageQueue`; every step is one of its steps or a
  stutter), `DeliveredOnce`, `AlwaysInOrder` and `AlwaysBounded`. `Inv` says that
  stored keys are below the counter and a message has one key (`Keys`), that what
  a drain holds is still stored under the key it read, or gone, and only the
  holder of `flushMu` drains (`Drain`), what a call may answer (`Answers`), and
  that a stored message its peer has is about to be deleted, or blurred by a fault
  (`Once`). The order of a drain rests on `Order`: what was stored when a message
  was enqueued has a smaller key (`Ascending`), and of what is ahead of a message
  that a drain has still to visit it will visit all that its peer has not had
  (`Swept`). The bound rests on `Bounded`: what the queue holds beyond the cap and
  the keys a call has still to drop belongs to calls that stored their message
  after it had listed the keys (`later`; the invariant says that such a choice
  exists and is closed under itself, no variable records it). That a nonempty set of keys
  has a least one is the minimal-element form of well-founded induction.
- `CoreProofs`:
  - `Hypervisor`, for any capacities and keys: `TypeCorrect`, `OpenedFresh`,
    `SingleUse`. `Inv` relates the outstanding nonce to the ones issued and checked.
  - `Services`, for any modules, values, revisions and failures: `StoreAlwaysKeeps`,
    `IdentityAlwaysKept`, `ViewAlwaysPublished`. `StoreInv` says that an open store
    runs on the key of the file and that without a file there is no record;
    `DocsInv` that every document under way, cached or in force was published;
    `IdentityInv` that from its first request on an enrolment works with the key
    that is recorded.
  - `Sysinfo`, for any intervals: `PolicyAlwaysGoverns`, from what is on its way to
    the watch (`WatchInv`) and how far the timer is behind (`TimerInv`).
- `EventBusProofs`, for any streams, topics and capacity: `BusSafety`,
  `InOrderAlways`, `NothingUnlisted`, and with the counting of losses
  (`CountInv`) and the inbound streams (`InboundInv`) `StreamsAlwaysFaithful`.
  `LogsAlwaysAccounted` is about `LogStream`, for any derived handlers and records:
  `LogInv` says where every record is (`Placed`), which stream a handler's records
  go over (`OneStream`), and that they are at core, on the wire and under way in the
  order logged (`InOrder`).
- `ModuleSDKProofs`, for any calls and jobs: `TypeCorrect`, `OneCallbackAtATime`,
  `NothingRunsUnstarted`, `AnsweredBeforeExit`. `SDKInv` says who
  holds the mutex at which place (`Locked`), how the state and the callbacks done
  go together (`Sequenced`), who owns the jobs (`JobsOwned`), and that a
  draining server has answered (`Answered`). The harness has
  `HarnessAlwaysSettles` (`StubCore`, any lines and exit codes), and
  `StubWatchAlwaysCurrent` and `StubAlwaysDelivers`, together `StubAlwaysServes`
  (`StubHost`, any callers, streams, topics and patterns).
- `ChannelProofs`, for any requests, keys and documents: `TypeCorrect`,
  `TrustRooted`, `SignedRuns`, `GrantedRuns`, together `ChainUnbroken`;
  `MarkHighest` and `NoOlderAccepted` until two requests race or the store fails.
  `Inv` counts the requests inside the unlocked section (`Counted`), so that an
  unraced write finds the mark it read.

Only model-checked: liveness, since fairness and `ENABLED` are outside the prover
(`StopReturns`, `ShutdownCompletes`, `HangIsEnded`, `RequestsAnswered`,
`BadIsLeftIfPossible`, `SendReturns`, `HostGetsIn`, `StreamCatchesUp`,
`StreamsMoveOn`, `RuntimeMovesOn`), and the four violated properties. Only proved,
and not part of a run: the type invariants, `DownMeansNoProcess`,
`TerminalIsFinal`, `PreviousResolves`, `RunningIsCurrent`, `NonceSingleUse`,
`JobsOnlyWhileStarted`, `WindsDownAnswered`, `MarkIsHighest`.

## Not modelled

- Generated protocol code (`sdk/gen`), more than a third of the repository's lines.
- Wall-clock time across programs: that weaveboot kills core after 15 s while a
  module may drain for 25 s. A grandchild that keeps a module's stdout open, which
  the fairness of `Supervisor` rules out.
- Windows: named pipes, job objects, DPAPI, Authenticode. The platform's binary
  verification is accepted or refused where it is used.
- The capability probe (read once; its result is a nondeterministic gate of `Add`)
  and the retry delays (any time in `Supervisor`).
- Paths, platform names, configuration decoding, error codes, log formatting, the
  command-line front ends: no state of their own. Core scans the directory of
  `--modules-dir` while the lifecycle manager installs under the layout's own;
  `Lifecycle` has the default, where both are one.
- The in-memory host services and the stub gateway, which only tests construct.
