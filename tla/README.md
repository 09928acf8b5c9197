# Verification of mqtt-raspberry-controller

TLA+ specifications of the daemon under `cmd/`, `controller/`, `mqtt/`, `gpio/`,
`action/` and `config/`, TLC configurations that model-check them, and proofs for TLAPS.
Paths below are relative to the repository.

## The system

One process connects MQTT switches, buttons and binary sensors to GPIO lines and
external commands, and announces them to Home Assistant.

| Component | State | Operations | Interacts with |
|---|---|---|---|
| Service (`cmd/.../main.go`) | stage of `run()`, shutdown deadline | start, signal, `shutdownService` | calls all others; cancels the context |
| MQTT client (`mqtt/client.go`) | `accepting`, `callbacks`, subscribers, handlers | `Connect`, `handleConnect`, message callbacks, `Publish`, `StopAccepting`, `Close` | Paho runs callbacks in order and `OnConnect` in one goroutine per connection |
| Command intake (`controller.go`, `client.go`) | duplicate filter, entity FIFOs | `dispatchMessage`, `acceptMessage`, `enqueueSwitch/Button`, `resetDedupe` | Paho callbacks against connect goroutines, workers and shutdown |
| Entity controller (`controller.go`) | `accepting`, context, WaitGroup, switch memory | workers, `handleSwitch/Button`, `PublishAllStates`, `HandleGPIOInput`, `Shutdown` | one goroutine per entity, connect handlers, input callbacks, `run()` |
| Discovery (`discovery.go`) | state file, its lock, retained topics | `reconcileDiscovery` | file system, broker, other daemons on the same file |
| Executor (`action/executor.go`) | position in the action list | `Execute`, one branch per action type | GPIO, MQTT, external commands; the context |
| Command supervisor (`executor.go`, `process_*.go`) | process group, captured output | `runCommand`, `terminateCommandGroup`, `boundedOutput` | kernel, context, timeout |
| GPIO manager (`gpio/manager.go`) | open outputs and inputs, lock | `OpenOutputs`, `OpenInputs`, `SetOutput`, `OutputState`, `InputState`, `Close` | edge callbacks into the controller |
| Configuration (`config/`) | the configuration, the password file | `load`, `expandEnvironment`, `applyDefaults`, `Validate`, `MQTTPassword` | read once at the start; every other component relies on it |
| Installer, release tooling (`scripts/`, `packaging/`) | files of the host | install, upgrade, rollback, uninstall | outside the daemon |

What is hard about it, and what correctness means:

- *Concurrency.* Workers, connect handlers, input callbacks and `run()` share
  locks, queues and the broker's retained states. Nothing may be closed under
  its users, nobody may wait for ever, and the retained state has to be true.
- *Unreliable delivery.* Packets are retransmitted, identifiers reused,
  connections renewed. A command must not run twice nor be lost to the filter.
- *Cancellation.* A signal may come between any two steps. At most the action
  under way finishes; commands in queues are not executed.
- *Crashes and partial failure.* Discovery spans a file and a broker with no
  transaction between them; a topic that may be retained must never be forgotten.
- *Timeouts.* A publication that timed out may arrive later; the shutdown shares
  one deadline between four waits. A command, its descendants and the kernel race
  with the timeout of the command: signals must reach its group and nobody else.
- *Trust in the configuration.* Whatever `--check` accepts must run, as far as the
  machine has its lines: no later step may find a line, a topic, a time or a credential
  it cannot use.

`PROJECT.json` lists the hazards at their lines with the properties that cover
them, and maps every definition to the code it models.

## Modules

```
DuplicateWindow  <-implements-  DuplicateCache  <-instance-  CommandIntake
                                Controller      Discovery    Service
BoundedOutput  <-extends-  CommandSupervisor
Expansion  <-extends-  Validation  <-extends-  Configuration
DuplicateCacheProofs, CommandIntakeProofs, ControllerProofs, DiscoveryProofs,
CommandSupervisorProofs, ServiceProofs
     extend their modules
Expansion  <-extends-  ExpansionProofs  <-extends-  ConfigurationProofs  -extends->  Configuration
MC*  extend the modules for TLC
```

### DuplicateWindow and DuplicateCache

`acceptMessage` keeps a map from key (topic and packet identifier) to generation
and a list of admissions (`dedupe`, `dedupeOrder`, `dedupeSeq`). One action is one
critical section of `dedupeMu`: `Admit` (lines 262-272, the eviction loop
included), `Refuse`, and `Reset` (`resetDedupe`). `verdict` shows the decision.
`DuplicateWindow` says what this promises without generations: a DUP packet is
refused exactly when its key is among the last `Size` admitted ones.

### CommandIntake

A packet on its way into a FIFO. `rx` is the single Paho callback: `Begin` (client
flag, payload limit), `Accept` (controller flags, retained), `Dedupe` (the filter,
an instance of `DuplicateCache`), `Enqueue` (the `select` with `default`).
`SessionHandler` and `Subscribe` are `handleConnect`, one goroutine per connection.
The broker (`Send`, `Resend`, `Acknowledge`) is external; it reuses identifiers and
may carry in-flight commands over a reconnection, which the daemon has to tolerate.
History variables record what passed, was refused or was queued in this connection.
The workers appear as `Take` only, `shutdownService` as `StopAccepting`, `Shutdown`.

### Controller

Entities at work. `at[e]` is the place of a worker: `loop` and `select` of
`runSwitchWorker`/`runButtonWorker`, `recheck` after receiving, `check` and `act` of
`Execute`, `read` and `publish` at the end of `handleSwitch`; it holds the entity's
lock from `check` to `publish`. `place[p]` is the place of a connect handler or of
`run()` in `PublishAllStates`, which reads a state under the lock and publishes it
without. `callback[b]` is `HandleGPIOInput`. `wg` is the WaitGroup as the set of
counted goroutines. A publication succeeds, or fails and may or may not have reached
the broker. Action lists are constants; a GPIO action changes a level, the others
only succeed or fail, as their type and the context permit. `CommandIntake` details
what happens before `Accept`, `Discovery` what happens in `Discover`.

### Discovery

`reconcileDiscovery` for daemons that share one state file. `pc[d]` follows the
function: `locked`, `purge` and `renew` for a changed device, `pending` for the
over-approximation, `clear`, `announce`, `final`; every write is a `Rename` and a
directory sync. `file` is what a process finds, `disk` what may be found after a
power loss. A daemon may stop between any two steps, every file operation and
publication may fail, and a publication that timed out stays in `late` until it is
delivered or the process ends. A topic is a pair of device and entity. `Corrupt`
stands for every file that `loadDiscoveryState` or `validateDiscoveryState` refuses
for its form; a file with the zero state is treated like no file, as in the code.
The branch for an empty `StateFile` is left out: `config.go:173` sets a default.
`TooLarge` is the refusal of `writeDiscoveryState` to write a manifest over its limit,
which the over-approximation of stale and wanted topics meets first.

### Service

The life of the process: `main` follows `run()` and `shutdownService` through every
error path, with one `expired` flag for the shared deadline; GPIO lines are opened
and closed one by one, and closing an input waits for its callback under the
manager's lock. The MQTT client's connect goroutines publish `online`, `Close`
publishes `offline`; `out` holds the status publications Paho has not had
acknowledged, `will` says that the broker has yet to publish the will. Workers,
connect handlers and input callbacks appear as users of MQTT and GPIO that the
WaitGroups count; `Controller` proves what it means that they have ended. `LookUp`
is the first half of `SetOutput`, `OutputState` and `InputState`: the line is found
under the manager's lock and used (`held`) after it is released.

### BoundedOutput and CommandSupervisor

`runCommand` for one external command. `place` follows the function: `begin` (the
context is checked), `bind` (`bindCommandExecutable` opens and checks the file),
`start`, `select`, then `reap` and `drain` when the observer has seen the exit, or
`term`, `grace`, `kill`, `reapTerminated` and `drainTerminated` when the context
ended first. `reap` is the part of `cmd.Wait` that reaps the leader, `drain` the part
that waits for the copying goroutine, at most for `WaitDelay`. `Observe` is the
goroutine of `observeCommand`: waitid with `WNOWAIT` leaves the leader a zombie.
Around it are the context (`Cancel`, `Deadline`), the path (`Replace`), the processes
of the command, which fork, leave the group, close the pipe and exit as they like,
and the kernel, which gives a number away when its process is reaped and its group
is empty (`Reuse`) and may refuse signals (`protected`). `BoundedOutput` is the
shared writer, with capture limit and saturating total. `Controller` uses the fact
`SuccessIsComplete` establishes: a command that was cancelled never succeeds.

A context that ends between the exit of the leader and the check after `cmd.Wait`
gives a context error without a signal to the group; descendants then survive, which
`src/README.md:36` declares unsupported. `GroupEnded` is about terminations only.

### Expansion, Validation and Configuration

`Expansion` is `expandValue`, one recursive function over a sequence of characters
from a set `Char`; `ScanFrom` is one round of its loop. `InsertedVerbatim` compares an
expansion with the one in which a variable holds nothing but a marker: replacing the
marker afterwards must give the same, for fields and other variables without markers.
It and `LiteralsExpressible` speak of the texts of the `mqtt` and `device` sections;
lines, entities and actions are expanded by the same function.
`Validation` holds `expandEnvironment`, `applyDefaults` and the parts of `Validate` as
operators on a configuration; checks between which nothing happens are one
conjunction, because their order decides only the wording of an error.
`Configuration` is the way from the decoded file to the running daemon: `stage`
follows `load`, `New` and `run()`, `step` the reading of the password file, which
happens three times (in the two validations and for the client's options) while
others replace, grow or change the file. Then the components use the configuration
as their code does: `NewClient`, `OpenOutputs`, `Register`, `OpenInputs`, `Execute`,
`ReadState`. A step that fails, or silently does something else, because of the
configuration sets `fault`. The machine is given by `Device` (the device a chip name
stands for; several names may stand for one) and `Lines` (how many lines a device has):
`RequestLine` fails for a chip or an offset that does not exist and for a line in use.

## Runs

| Run | Checks | Shows |
|---|---|---|
| `duplicate_cache` | `TypeOK`, `CacheConsistent`, `ImplementsWindow` | the filter is bounded, consistent and implements the window |
| `intake` | `TypeOK`, `AtMostOncePerConnection`, `RefusedWasPassed`, `AtMostOneAfterCancel`, `CallbackReturns` | no command is queued twice or lost to the filter in a connection, one at most enters late, and the Paho callback never waits for a worker |
| `controller_commands` | `TypeOK`, `AtMostOneLateAction`, `WorkerPublishesTruth`, `CommandsTaken` | failures and cancellation at any step of an action list; queues are worked off |
| `controller_states` | `QuietWhenStopped`, `WorkerPublishesTruth`, `ShutdownReturns` | publishers, input callbacks and shutdown: nothing is at work afterwards, and `Shutdown` returns without its timer |
| `discovery_alone` | `TypeOK`, `Tracked`, `SelfAccepted`, `SuccessMeansSettled`, `Converges` | one daemon, changing configurations, crashes and power loss; a failed reconciliation is made good by later connections |
| `discovery_shared` | `Tracked`, `OwnTopicsOnly`, `SuccessMeansSettled` | two clients on one file |
| `service` | `TypeOK`, `ResourcesOutliveUsers`, `OfflineIsLast`, `LinesReleased`, `RunReturns` | start, failed start and the shutdown sequence with QoS 0 and 1 |
| `supervisor` | `TypeOK`, `SignalsOwnGroup`, `SuccessIsComplete`, `GroupEnded`, `OutputReported`, `ExecutesChecked`, `Returns` | exit, timeout and cancellation of a command in every order, with descendants that fork, escape and hold the pipe |
| `configuration` | `TypeOK`, `AcceptedIsUsable`, `CredentialChecked`, `InsertedVerbatim`, `LiteralsExpressible` | what validation accepts can be used on a machine that has its lines, each declared under one name; the password is that of the file that was examined, and expansion is one pass |

Three runs are expected to end in a counterexample; they document where the code
does less than its documentation says.

- `controller_race` (`FinalStateRetained`). `PublishAllStates` reads a switch under
  its lock and publishes after releasing it (`controller.go:375-380`). A command
  executed in between is published first, the old state second, and it stays
  retained. `WorkerPublishesTruth` holds because it speaks of the worker's own
  publications. Publishing under the lock would remove the race.
- `intake_overflow` (`RefusedWasQueued`). The filter records a command before the
  queue turns out to be full; its retransmission is refused as a duplicate.
- `intake_overlap` (`AtMostOncePerConnection` with two connect goroutines). A
  `handleConnect` delayed past the next connection resets the filter of that
  connection. With one goroutine at a time, run `intake`, the property holds.

### Bounds

- `duplicate_cache`: three entries, four keys, seven admissions per session: every
  key can be refreshed, evicted and met again. The code has 256 entries.
- `intake`: queues of one, so that they are full soon; two commands in four packets,
  two connections and two identifiers, so that commands are sent again, identifiers
  are reused and the filter never evicts within a connection (eviction is the subject
  of `duplicate_cache`).
- `controller_*`: a queue of one and two commands, so that one is dropped, waits or is
  in work when the other comes; lists with every action type, an ignored error, and
  an output that is set before a later action fails. `controller_commands` has workers
  and `run()` only. `controller_states` adds a connect handler and a sensor, which
  `QuietWhenStopped` and `ShutdownReturns` are about: one connection, because handlers
  share nothing but the WaitGroup and the entity locks and `run()` is a second publisher
  beside it; one edge at a time but without end, so that callbacks may compete with the
  shutdown for ever. A `wg.Done` that is lost in the handler, or in the callback, is
  found there.
- `discovery_*`: two devices, two entities and four configurations (one with
  discovery disabled), an own and a foreign manifest at first, three stops; the
  shared run has two daemons and a device change in one of them. `MaxTopics` is the
  size limit of the manifest: in `discovery_alone` two topics with a third entity, so
  that every configuration fits and some unions do not; in `discovery_shared` it is
  large enough for all.
- `service`: two goroutines of `handleConnect` and two connections let a delayed one
  meet the next connection and the shutdown; two outputs and two inputs make
  rollbacks partial.
- `supervisor`: two descendants, so that one can hold the pipe outside of the group
  while the other is in it, and one can fork the other; a capture limit of one byte
  and a largest total of two, so that both are passed by one write and by several;
  two files, one of which is not executable.
- `configuration`: families around one sound configuration, each varying the parts
  that are checked against each other: lines (the same one twice, by default, by
  variable or under the other name of the chip, an offset or a chip that does not
  exist), inputs, entities, actions, brokers with credentials, TLS, single texts;
  device names of up to four parts out of dollars, braces and references, with six
  environments; two files and two changes while the password is read, and a limit of
  three bytes, so that the file can pass it between stat and read.

Runs with `CHECK_DEADLOCK FALSE` are of processes that end; `discovery_*` and
`duplicate_cache` check for deadlock.

### Fairness

Only goroutines that can run are assumed to go on. `CommandIntake` assumes it of the
callback alone. `Controller` and `Service` assume it of workers, handlers and
callbacks: a delay or a command ends by itself or by its timeout (`runCommand`), a
publication or subscription after five seconds, and locks are released on every
return. Timers of the shutdown are never relied upon, so that the liveness results
are about the waits themselves. `Discovery` assumes that a running daemon goes on
and that connections are renewed now and then, because only a new connection
repeats a failed reconciliation; `Converges` has as hypotheses that failures stop,
that the daemon stays up, that the file is usable and its own, and that stale and
wanted topics fit into one manifest. The last one is needed: beyond the limit no
reconnection helps, and the daemon repeats the same error for ever (`Tracked` still
holds, and the wanted topics alone may well fit). `CommandSupervisor` assumes that
goroutines of the daemon go on and timers fire, and nothing of the command and its
descendants; `Returns` excludes only a kernel that refuses signals to the group,
which needs a command that changes its user, against the unit's `NoNewPrivileges`.

## Proofs

The theorems hold for every value of the constants that satisfies the named
assumptions (`SizeAssumption`, `ActionsAssumption`, `NamesAssumption`,
`ConfigsAssumption`, ...), which state what `config/validation.go` enforces and
what the names stand for; TLC evaluates them in every run.

- `DuplicateCacheProofs`: `TypeCorrect`, `Consistent`, `Implements`. The invariant is
  `TypeOK /\ CacheConsistent`: generations in the list are consecutive, every listed
  key is in the map with a generation at least as new, and every mapped key is listed
  with its current generation. Density is what makes the comparison of generations
  in the eviction loop mean "this is the last admission of the key". Then the map
  knows exactly the keys of the window, and each step maps to a window step.
- `ControllerProofs`: `TypeCorrect`, `StoppedIsQuiet`, `CancellationIsPrompt`,
  `WorkersTellTheTruth`. `Counted` (everybody at work is in the WaitGroup) and
  `Closing` (nobody is admitted from `Shutdown` on, nobody is left when it returns)
  give quietness: neither is inductive without the other, since a callback could be
  admitted after the wait. `LateOnce` strengthens the bound by "and then the worker
  is not in an action and the context is cancelled". `Truthful` adds to the property
  what the worker is about to publish, and needs that no other entity drives the
  line (`Exclusive`).
- `DiscoveryProofs`: `TypeCorrect`, `NothingForgotten`, `OwnManifestAccepted`,
  `ForeignTopicsUntouched`, `SuccessSettles`. `Tracked` is not inductive: whether a
  publication is tracked depends on what the file held when the stage began. `Stage`
  says for every place of `reconcileDiscovery` what file, disk and broker hold
  (before the first publication the over-approximation is the only version that can
  survive), `Quiet` ties places to the lock, and `LateOK` says that late publications
  agree with the running configuration.
- `CommandSupervisorProofs`: `TypeCorrect`, `SignalsOwn`, `SuccessComplete`,
  `GroupTerminated`, `OutputCorrect`, `ChecksExecuted`, for any number of descendants,
  files and bytes. `LeaderPlaced` says for every place of `runCommand` what the leader
  can be: reaped only after the last signal, reused only when reaped. `CopierPlaced`
  ties the copying goroutine to the leader and to the pipe: without `WaitDelay` it has
  ended only when nobody holds the pipe, and then nobody can inherit it any more.
  `GroupGone` adds to `GroupEnded` that the leader does not run either, or it could fork
  again. `OutputPlaced` (nothing is written before the start) covers the returns that
  report zero without looking; `WriteExact` is the arithmetic of one write.

- `CommandIntakeProofs`: `TypeCorrect`, `OneAfterCancel`, `RefusalJustified`,
  `QueuedAtMostOnce`. `Base` holds however connections overlap: `Carried` says what the
  callback knows of its packet at each place (a QoS 1 packet is a copy of the one in
  flight), and `LateOnce` strengthens the bound by "and then no callback is past the
  check of `acceptMessage`". The other two theorems have hypotheses on the behaviour.
  `Sequential`, for both: a connect goroutine has ended before the next connection
  starts one; without it the property is false, as `intake_overlap` shows. Under it,
  `Session` says that nothing is received before the filter is reset for the
  connection, and that a key in the filter then stands for a command let pass, on its
  way, or barred by the shutdown. `WithinCache`, for `QueuedAtMostOnce`: the connection
  has admitted at most `CacheSize` packets, since a command that was evicted may pass
  again. `Remembered` says that what was let pass is known until then, `QueuedOnce`
  that a command about to be queued has not been.
- `ServiceProofs`: `TypeCorrect`, `OpenWhileUsed`, `OfflineAtTheEnd`,
  `AllLinesReleased`, for any number of workers, connect goroutines, lines and
  connections. `Phase` ties the connection to the place of `run()`, `Stopped` says what
  is closed to newcomers and which waits have succeeded at each place of the shutdown,
  `Counted` that everybody at work is in a WaitGroup: together, nobody is at work once
  the waits are over. `Holding` (a held line is open and its holder at work) is what
  `LookUp` needs, which keeps a line after it released the manager's lock.
  `Farewelled` follows the status topic: a connection that is not up leaves `offline`
  or the will, and behind the `offline` of `Close` nothing else is under way.
- `ExpansionProofs`: `LiteralStands`, `DoublingStands`, `Verbatim`, for every text and
  every environment. What a recursive function computes needs induction; the library's
  rules take a predicate, which the provers cannot instantiate. `Downward` and `Upward`
  are rules for a *set* of positions, from the well-foundedness of the naturals. With
  them `ScanOfExpand` and `ReplacedBy` show that the functions exist, and the theorems
  follow the loop from the end of the text. `ShapeOf` and `ScanShape` are the five cases
  of a round; `Verbatim` runs two scans side by side, in the environment and in the one
  with the marker (`Agree`).
- `ConfigurationProofs`: `TypeCorrect`, `PasswordFromVettedFile`, `ExpandedVerbatim`,
  `AnyTextExpressible`, `AcceptedRuns`, for every configuration, environment, set of
  files and number of changes. `Loaded` says what `cfg` is during `load`, `Validated`
  what has been checked at which stage, `Opened` which lines are open, and `Vetted` that
  the file being read is the examined one and that the password is a checked prefix of
  it: a prefix, because others may append while and after it is read. `AcceptedRuns` is
  the agreement of `Validate` with its users, one lemma for each: `ClientCanBeBuilt`,
  `LinesAvailable`, `Subscribable` (topics of different identifiers differ, and the pattern
  of identifiers excludes wildcards), `InputsSound`, `ListsSound` with `ActionSound`,
  and `StatesReadable`. `Suited`, in the property itself, is what no validation could
  know: the machine has the declared chips and offsets, and no line is declared under
  two names of its chip. `Faulted` (errors are met by `run()` and the running daemon
  only) is needed because the configuration must not change after an error.

Before they were proved, the inductive invariants were checked by TLC on the
instances of the runs.

Model-checked only: `CommandsTaken`, `ShutdownReturns`, `CallbackReturns`,
`Converges`, `RunReturns` and `Returns`, because fairness and `ENABLED` are beyond the
prover. Every invariant and every action property of the passing runs is proved.

## Not modelled

- Installer, uninstaller, release tooling, systemd units: scripts and static files
  outside of the daemon.
- `process_other.go`, the fallback for systems other than Linux, where signals may
  indeed reach a reused number: the daemon needs the Linux GPIO interface.
- YAML decoding, URL, duration, path and certificate parsing: library code, external
  functions of texts in `Validation`. The environment of a command
  (`minimalEnvironment`), chip labels and display options.
- An error of waitid other than EINTR (`process_linux.go:54`): `done` would be closed
  while the leader runs and `runCommand` would wait for it without a timeout. It needs a
  child that somebody else has reaped, and nothing else in the process waits for children.
- Rate-limited logging, payload wording, discovery payload contents, TLS options,
  line options of GPIO.
- Several sensors on one input: `HandleGPIOInput` publishes them one after the other;
  one sensor per input is modelled.
- Paho and the broker are external. Assumed are: callbacks in order and one at a
  time, `OnConnect` in a goroutine per connection, publications handled in the order
  they were made, acknowledged ones handled by the broker, a will for every
  connection without DISCONNECT, `IsConnected` also while reconnecting.

## Plan

1. Proofs: that each step of `Controller` relies only on what `CommandIntake` and
   `CommandSupervisor` establish is argued above in words; a composed module could state it.
2. Liveness of `Discovery` with two daemons.
3. `Installer`: staged replacement and rollback, if the scripts are to be covered.
