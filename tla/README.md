# Tidewaiter in TLA+

Tidewaiter keeps game servers up to date without cutting off a player. A daemon looks at every
workload it was asked to look after - Docker containers, systemd units that run from a Nix
profile - and, once nobody has been on for a while, swaps the workload for the version it should
run, watches the new one through a health gate, and commits it or goes back. It can reboot the
machine the same way. This directory holds TLA+ modules of that program, the TLC configurations
that check them on small instances, and proofs of theorems about them.

Paths such as `systemd/source.go:401` are below `src/internal/`.

## 1. The system

| Component | State it keeps | Operations | What makes it hard |
|---|---|---|---|
| **systemd source** `systemd/source.go` | per unit: idle streak and first look (process); record of a swap, good generation, pin, failure count (state store) | pass: recover, update a stopped unit, swap (record, bind, reload, set, restart), undo, gate, roll back, commit, prune; activity | six calls that each fail after the ones before worked, a daemon that dies between any two, others who restart the unit meanwhile |
| **systemd bus** `systemd/dbus.go` | a connection | read a unit, restart and wait for the job, daemon-reload | the connection drops after the job was queued |
| **profiles, closures** `nix/profile.go`, `nix/closure.go` | generations of a Nix profile, the closure drop-in | set, switch, delete, prune; write the drop-in | three pieces - drop-in on disk, drop-in loaded, profile - moved by three calls |
| **state store** `statestore/` | one file of memories, by unit | load, save | a failed save is only warned about, so the file lags the daemon |
| **daemon** `daemon/daemon.go` | busy, known, settled and held workloads, rebooting, stopping; the lock `turn` over the sources, `mu` over what is known | pass, activity tick, last look, reboot, stop | two goroutines over the same sources and one status; verdicts that are old when they are used |
| **decision** `decide/` | none | keep, update, defer or pinned; the debounce | the order of its branches is the policy |
| **reboot** `reboot/` | none | is one needed, is the window open, ask logind | logind may refuse; players come while it is being asked |
| **status** `status/` | a file | write, clear, read | must not outlive the daemon or miss a swap |
| **Docker source** `docker/source.go` | per container, in the process only: streak, pin, failures, pulls under way | pass: resolve, prefetch, pull, stop, rename, create, connect, start, gate, undo, commit | nothing is persisted: what survives a death is what Docker holds; background pulls move the tag under a swap |
| **Docker client** `docker/client.go`, `version.go` | the Engine API version negotiated | one HTTP call each, asked again when Docker refuses its version | a call that is carried out and whose answer is lost; concurrent calls sharing a version that goes stale |
| **recreate** `docker/recreate.go` | none | an inspect turned into the body of a create | Docker shows settings merged with their image's, in a shape that depends on the version, and the next swap starts from the result |
| **health gate** `health/`, `docker/source.go:695-860`, `systemd/source.go:730-800` | first sight of each check | poll to a deadline; watch Docker's health events | two arms race over checks that remember |
| **activity detection** `detect/` | netio's last reading | sample: conntrack, tcp, netio | flows outlive their clients, counters start over, a table cannot be read |
| **registry** `registry/` | none | resolve a tag | requests and parsing only |
| **units file, preparation** `systemd/units.go`, `prepare.go`, `nix/module.nix` | none | parse; at each boot and switch, seed a missing profile and ensure the drop-in | runs beside a daemon that writes the same profile and drop-in |
| **command line, NixOS module, fakes** | none | wiring | - |

**How they interact.** The daemon calls each source in turn, in one goroutine, under the lock
`turn`; a faster tick takes `turn` only if it is free (`TryLock`), then reads activity through the
same sources. A source calls back into the daemon: hold this workload (it is published as being
swapped), look once more. After a pass the daemon may ask for a reboot, which takes `turn` again
for a last look at every source. The systemd source persists through the state store; the
Docker source through nothing. Both hand a new version to the health gate and act on its verdict
alone. systemd, Docker, Nix, players, deploys and people act at any time.

**What must hold**, per component:

- a swap is atomic as seen by a later daemon: whatever was interrupted or failed, what was put
  in and not gated is known to be, and what is gone back to is still there;
- a unit is started only with the closure its version needs;
- what a gate found unhealthy is not put in again until something else is asked for;
- a container that was good always exists somewhere;
- a recreated container is the user's settings on the new image: nothing of the old image or of the
  old container's identity outlives it, and nothing of the user's is lost;
- what a reboot cuts short is finished or undone, and the unit can be started meanwhile;
- players are cut off neither by an update, by cleaning up after one, nor by a reboot;
- the gate rolls back on evidence only, and commits nothing it had the means to know is broken;
- all of it makes progress: swaps are resolved, quiet workloads converge, the gate returns, the
  tick never queues behind a swap, a stop ends, a reboot that is needed happens.

The hazards these come from, each with its line, are listed in `PROJECT.json`.

## 2. The modules

| Module | Models | Constants |
|---|---|---|
| `Decide` | the decision and the streak, shared by those below that use them | `None` |
| `UnitSwap` | the systemd source over one unit, with the bus, the profile, the closure, the state store and everyone else | versions, generations, policy, bounds |
| `UnitSwapInvariant` | the inductive invariants over `UnitSwap` | |
| `UnitSwap_proofs` | its types, and that each restart is under its closure | |
| `UnitRecovery_proofs` | what a restarted daemon finds, restarts, runs and pins | |
| `UnitBoot` | `UnitSwap` with the machine under it: reboots, and `prepare` before the unit starts | the profile's first versions |
| `UnitBootInvariant`, `UnitBoot_proofs` | the inductive invariants over it; what of `UnitSwap` holds through reboots, and what `prepare` leaves | |
| `DockerSwap` | the Docker source over one container, with Docker and the registry | digests, policy, bounds |
| `DockerSwap_proofs` | theorems about `DockerSwap`, that it implements `GuardedUpdate` among them | |
| `GuardedUpdate` | what a source promises of a service it updates, in three variables | versions |
| `ApiVersion` | the client's negotiated version, under concurrent callers and a Docker that is replaced | callers, offers, bounds |
| `Recreate` | what a container is after a chain of swaps, through that client | images, values |
| `RecreateInvariant`, `Recreate_proofs` | the inductive invariants over `Recreate`; theorems about it and about the negotiation | |
| `Daemon` | passes, ticks, the last look, the reboot, a stop, over sources seen from outside | the sources' workloads, bounds |
| `DaemonInvariant`, `Daemon_proofs` | the inductive invariants over it, and its theorems | |
| `HealthGate` | the gate over one new version of either kind | a set of gates (policies), times, bounds |
| `HealthGateInvariant`, `HealthGate_proofs` | the inductive invariants over it, and its theorems | |
| `Detection` | who is on, as each detector sees it, and the debounce that leads to an update | a set of policies, times, bounds |
| `Detection_proofs` | its inductive invariant and its theorems | |
| `MC*` | the above instantiated for TLC | model values |

`Decide` is shared as the code shares `decide.Decide`: `UnitSwap`, `DockerSwap`, `Daemon` and
`Detection` all EXTEND it. `UnitBoot` composes `UnitSwap` with the machine and with `prepare`, every
step of the one interleaved with every step of the other; `Recreate` composes a swap's three
calls that carry settings with `ApiVersion`'s client, whose other callers are the background
pulls. The other components meet at narrow interfaces, and each module models its neighbour by
everything it may answer: for `UnitSwap` and `DockerSwap` the gate is either verdict (`Healthy`,
`Unhealthy`) and a sample is who is on or a failure, which is what `HealthGate` and `Detection`
model in full; for `Daemon` a source is what `source.Source` promises, and a swap a step that may
never end; for `Recreate` a swap whose settings are made is committed or undone, which is
`DockerSwap`'s business.

### UnitSwap: state and steps

The source is one sequential process, so its state is `pc`, the next external call, and `job`, the
local variables of `reconcile` and what it calls. Everything else may happen between two calls.
One external call is one step; what the code does after it, up to the next call, is in the same
step (a save follows what it saves).

| Variable | Code |
|---|---|
| `unit`, `busy` | what the bus reads: ActiveState, InvocationID, and the version it started with |
| `gens`, `cur` | the profile's links `profile-N-link` and the profile link |
| `file`, `loaded` | the closure drop-in on disk, and as systemd last loaded it |
| `disk`, `mem` | the unit's entry in the state file, and in the source's map |
| `streak`, `seen`, `held` | the source's process-only fields, and the daemon's hold |
| `attention`, `abandoned`, `ungated`, `condemned` | history, for the properties only |

`FirstSight` is `firstSight` (recovery), `PutBack` is `putBack` shared by undo, rollback and
recovery, `Stopped` is `updateStopped`, `Swap` is `swap` with its undo, `Gate` is `gate`,
`rollBack` and `commit`. `Crash` is SIGKILL at any step. A call that fails takes one of
`MaxFaults`; a restart has a third answer, `RestartLost`, a job that was queued on a bus that then
dropped. The environment restarts, stops and kills the unit, moves the desired version, and
players come and go.

### DockerSwap

`named` and `parked` are what wears the container's name and its rollback name; each remembers
whether it runs, which image it is of, and (history) whether it was gated. Each Docker call is a
step with three outcomes: done, not done, done with its answer lost. `stored` is what the tag means on
the host, moved by the swap's pull and by background pulls landing at any time (`pulls`); `registry` is
what the tag resolves to. `job` holds the booleans from which the undo takes its steps,
as the code's `undo` list does. `Crash` loses `mem`, `prefetched` and `pulls`.

`GuardedUpdate` is the abstract specification: a `proven` version, a `trial` beside it, and what was
`rejected`. It is tried, accepted, rejected or withdrawn; nothing else may happen to the proven one.
The refinement mapping (`Guarded`) takes `proven` to be the image of whichever of the two
containers has passed a gate, the named one first; `trial` to be the named one while it has not;
`rejected` to be `condemned`. Parking, creating, undoing, losing an answer and dying are then
steps of it or stutters. The mapping does not hold of a unit the same way: `UnitSwap` keeps the
good generation in a file that a failed save leaves behind, and gives up the record when others
stop the unit (section 7, f).

### UnitBoot

`boot` is the `prepare` under way, one external call a step, what it has read (`want`, `current`), and
whether the boot has yet to start the unit (`starting`). `Reboot` is a death of everything: the
unit, the daemon, `/run` and with it `file` and `loaded`; the profile and `disk` stay. A start of the
unit, whoever asks for it, waits until `prepare` is done (`Beside`: `before = unitNames`); the daemon
waits for neither. `Declared` is a switch that changes the declaration, which runs `prepare` again.
`moved` and `overtook` are history: that the daemon has moved the profile or the drop-in before the boot's start,
and that the boot's start came between the daemon's finding the unit stopped and the last step it
takes on that (`TakenForStopped`; a look after a finished recovery reads the unit afresh, `systemd/source.go:262-275`, and is none of those).

### ApiVersion and Recreate

`call` is each caller's `do`: negotiate, send, and once more after forgetting a version Docker
refused; `version` is the client's, whose mutex makes negotiating one step and forgetting another.
`Upgrade` replaces Docker by one of `Offers` at any point.

`container` is the container as Docker has it, settings merged with its image's; `own` what the user
asked for at first, `images` each image's defaults; `seen` is the inspect a swap starts from, `made` the
new container before its commit. A setting is one of four kinds, which is how many ways Docker merges:
`entry` (a variable, a label, a field of the health check, the user and so on: filled when unset),
an exposed port or an anonymous volume (united), and the command with its entrypoint (the one filled only
without the other). The identity is a hostname, aliases and MAC addresses, each in the API versions that show and take
it. `aspect` says which of them an instance varies, as the settings do not depend on the Docker nor
the identity on the image.

### Daemon

`pc` walks the goroutine of passes through `once` and `considerReboot`, `tick` the other one
through `publishActivity`; `turn` says who holds the sources. The critical sections of `mu` are single
steps. `dump` is the conntrack table the holder took once and samples every source against, so
players who come after it are not seen by that holder: the last look is stale by exactly that
much, and `RebootSparesPlayers` is stated against it (`newcomers`).

| Variable | Code |
|---|---|
| `running`, `vacant`, `playing`, `pending`, `needed`, `window`, `asked` | the world: workloads, those of them with nobody to wait for, those with players or an update; the reboot marker, the window, SIGTERM |
| `turn`, `dump`, `at`, `streak` | the lock over the sources, and what its holder and the sources keep under it |
| `busy`, `known`, `settled`, `held`, `rebooting`, `stopping` | the daemon's fields of those names, under `mu` |
| `status`, `lastNotified` | the status file, and the last `sd_notify` |
| `pc`, `todo`, `subject`, `outcome`, `failed`, `answered`, `tick` | the two goroutines and their local variables |
| `newcomers`, `unwaited`, `unwritten`, `uncleared` | history, for the properties only |

A workload is reconciled in one of four ways. It is not sampled (`NotSampled`), and then not settled. It is
left alone or swapped on its streak (`LeftAlone`, `Hold`). Or it is `vacant` - a unit that is stopped or that systemd does not
know, a container whose label is no policy - and is reported settled at once, whatever its streak, which stays as it
was (`NobodyToWaitFor`: `systemd/source.go:236-240`, `277-279`, `docker/source.go:247-252`, and `docs/systemd-source.md:537-538`);
`unwaited` remembers which of the `settled` those are. Only the systemd source
looks again between holding a unit and swapping it (`LooksAgain`; `systemd/source.go:394`); the Docker source goes straight
from one to the other. A swap may end with its update still waiting, or, a gate that could not be begun, with the unit reported as
never sampled (`systemd/source.go:119-123`). `Clear`, like every `Publish`, may fail: its error is discarded (`daemon.go:425`),
and the file stays as it was last written.

### HealthGate

`poll` is `health.Gate`'s loop, `watch` the goroutine on Docker's events, `events` the unread
stream, `holder` the mutex around an evaluation; an evaluation reads the subject when it starts
and the sockets when it ends, and time passes in between. `firstSeen` is what `uptime` and `port-connect` remember.
`sent` is the channel the two arms settle into, and `cancelled`, `returned` the end of the gate.
The version itself is the environment.

### Detection

`flows` is each client's entry in the host's conntrack table with the socket it stands for,
`bytes` the container's counter, `prior` netio's last reading, `look` the pass or tick under way
(dump, listing, sample - in the code's order, with the world moving in between), `streak` and
`current` the source's debounce and the version. `quiet` and `sincePass` are history: what was
truly there when the passes looked.

## 3. What the runs check

Every bound is a named CONSTANT, used in a guard. A run marked *violation* checks one property
that a document or a comment of the repository states and the code does not keep (section 6).

| Run | Question | Bounds |
|---|---|---|
| `UnitSwap` | through failures, deaths and somebody else's acts: is what is ungated on record (`UngatedIsRecorded`), is each restart under its closure (`RestartsUnderOwnClosure`), held, and none under players to clean up (`RestartsAreHeldAndNeeded`); with nobody else about, does what runs match the profile (`UpRunsItsProfile`), is nothing condemned put in again (`NeverBackToCondemned`)? | 2 versions, 4 generations, 2 failing calls, 2 deaths, 1 outside act, 2 deploys |
| `UnitBoot` | through a reboot or a death anywhere: can what `prepare` leaves be started (`PreparedCanStart`), does an up unit run what its profile names, but where the boot overtook the daemon (`UpRunsUnlessOvertaken`), does a quiet unit converge (`ConvergesThroughReboots`), is each swap resolved (`SwapResolved`)? | 2 versions, 4 generations, 1 reboot or death, 1 deploy, 1 failing `prepare`; the profile missing or seeded |
| `GateAbandoned` | *violation* | 1 failing call |
| `BootOvertaken` | *violation* | no death, no failing call, no deploy |
| `DockerSwap` | does a good container survive (`GatedContainerSurvives`), is nothing ungated left (`NothingUngatedIsLeft`), does a swap stand up what it asked for (`StandsUpWhatItAskedFor`), is it all a guarded update (`KeepsTheProven`, the refinement), does a quiet one converge (`Converges`)? | 3 digests, 2 failing or lost calls, 1 death, 2 moves of the tag |
| `DockerStopLost` | *violation* | 1 lost answer |
| `Recreate` | through any chain of swaps: has each setting its owner (`EachSettingHasItsOwner`), is the command one a fresh `docker run` would get (`CommandIsAFreshRuns`), is the identity the container's own (`IdentityIsItsOwn`), is no create refused for its contents (`CreateIsTaken`), and no call for its version without a reason (`RefusedOnlyWhenDisturbed`)? | 2 images of any defaults, 2 values of each kind, 2 callers, 5 Dockers, 1 replaced, 1 failing call |
| `Daemon` | passes, ticks, looks and a stop interleaved: `LeavesNoStatus`, `StatusSaysSwapping`, `RebootSparesPlayers`, `RebootWaitsForDebounce` | 2 sources, 1 update, 1 workload that comes, goes or (the unit) is stopped or started, debounce of 2, the status file perhaps not removable; a reboot needed from the start |
| `DaemonLive` | any call failing: `TickNeverWaits`, `StopEnds`, `RebootHappens` | 1 source, 1 failing call, 1 update |
| `HealthGate` | `RollsBackOnEvidence`, `NeverServedNeverCommitted`, `EarlyCommitHasBeenUp`, `WrongAddressIsCaught`, `GateReturns` | ten gates, 3 changes of the version, 2 faults |
| `Detection` | `UpdatesAfterTheDebounce`, `QuietIsUpdated` | six policies, 1 client that comes twice, 1 restart, 1 fault, 1 tick between passes |
| `NetioTicks` | *violation* | 1 tick between passes |

Besides these, each passing run checks one type invariant. The names of the bounds: `MaxFaults`
(failing or lost calls), `MaxCrashes` (deaths of the daemon; in `UnitBoot` reboots as well),
`MaxOutside` (acts of others), `Vacating` (whom somebody may stop), `MaxDeploys`, `MaxGenerations`, `MaxMoves` (of a tag), `MaxUpgrades` (of
Docker), `MaxChanges`, `MaxUpdates`, `MaxArrivals`, `MaxBytes`, `MaxRestarts`, `MaxTicks`.

**Why these bounds are enough to be worth something.**

- *Units.* Two versions and two deploys give there-and-back, the shape in which a stale record or
  number could be mistaken for a new one; four generations let numbers be deleted, pruned
  (`KeepGenerations = 1`) and counted on. Two deaths reach a death inside the recovery from a death;
  two failing calls a failing undo of a failing swap, and with `MaxSwapFailures = 2` the pin by
  count. `SYMMETRY` over versions is used where no liveness is checked.
  Others act only once: what they can do - restart, kill, stop - is used up by a single act at the
  worst moment, and each act is tried at every moment. What is not true of the code with others
  about (section 7, a and f) says `spent.outside = 0` in the property itself.
- *Boots.* One reboot at every point of a swap, its undo, its gate and its rollback, and one during
  a `prepare`, is what `UnitBoot` adds; a second would meet the states the first left, which are those the
  run starts from - a profile on either version, seeded or not, no drop-in - but for what the state
  file says. A reboot takes the place of a death, so the two are not combined. The safety properties are theorems for
  any number of both (section 5).
- *Containers.* Three digests let a background pull of an older target land under a swap for a
  newer one while the first is still pinned out.
- *Recreate.* A swap reads only the container there is and the image it goes to, so two images with every
  combination of defaults reach every pair of old and new, and the chain of swaps is not bounded: the
  run goes round until nothing new appears. Two values and unset tell the user's from each image's. Five Dockers
  lie on both sides of every version the code turns on (1.44, 1.45, 1.52, 1.54) and of `NewestAPI`, one of them
  accepting nothing older than it. One replacement between any two calls is the case the code is written for;
  two in one call is the case it gives up on.
- *Daemon.* A lock and two goroutines need one workload per source to interleave, two sources to
  be between two of them, and a debounce of two to be half way through it. `Vacating` has the unit only: one workload
  that is settled at once beside one that has to be debounced is what tells the two apart. The run begins with a reboot
  needed (`NeededSpec`); until one is, a pass leads to nothing more, and `DaemonLive` begins either way. The only call that fails in
  `Daemon` is the removal of the status file; the safety properties with any call failing are theorems, whose
  invariants TLC also checked with a failing call of any kind.
- *HealthGate.* `Poll = 2` is `HealthPoll` of `docker/source.go:37`. It matters: uptime's grace is
  at least two seconds, so with a timeout of one or two it ends at or after the deadline, and
  only a poll as long as the floor still lets it decide first; the settings include timeouts of 1, 2 and 4.
  `Slow = 1` lets an evaluation start before the deadline and answer after it. Three changes reach
  up, serving, dead; two faults a failed inspect after a dropped stream.
- *Detection.* A detector asks only whether one flow exists, so a second client adds nothing a second
  coming of the first does not; one restart, fault and tick each reach the one case they are for.

`MCHealthGate.cfg` says `CHECK_DEADLOCK FALSE`: the gate returns, and then nothing happens. All
other runs check for deadlock.

## 4. Fairness

| Module | Assumed | Because |
|---|---|---|
| `UnitSwap` | weak fairness of the daemon's next step, whatever it is; an activating unit gets up | the passes are driven by a timer (`daemon.go:428-445`), systemd restarts a daemon that was killed (`Restart=on-failure`, `nix/module.nix:457` and `systemd/tidewaiter.service:48` of the repository's root), a restart job ends by systemd's own timeouts |
| `UnitBoot` | the same, the daemon's steps beside the machine's (`DaemonSteps`); weak fairness of `prepare` and of the boot's start of the unit | systemd runs the jobs of a boot; a `prepare` that fails ends all the same |
| `DockerSwap` | the same of the pass, and of background pulls as a whole | each call has `RequestTimeout`, each pull `PullTimeout` (`docker/client.go`) |
| `Daemon` | weak fairness of each goroutine; strong fairness of taking `turn` (`PassBegins`, `LookBegins`, the exits) | a Go mutex in starvation mode hands itself to whoever waits longest; the tick only tries it. A swap has **no** fairness, so the properties that need its end say `SwapHangs \/ ...` |
| `HealthGate` | weak fairness of the gate's steps, the clock's among them | the calls of a check have timeouts (`RequestTimeout`, `Dialer.Timeout`); the version gets none |
| `Detection` | weak fairness of looks, and of the expiry of flows | a timer; the kernel's conntrack timeouts |

`Recreate` has no liveness property and no fairness. Crashes, reboots, faults, players, deploys and
upgrades are never fair.

## 5. What is proved

TLAPS proves, for every value of the constants that meets the named assumptions - any versions,
digests, clients, callers, sources and workloads, any bounds, any policy, confined or not -:

| Theorem | Module | States |
|---|---|---|
| `TypeCorrect` | `UnitSwap_proofs` | `Spec => []TypeOK` |
| `ClosureInvariant` | `UnitSwap_proofs` | `Spec => []ClosureInv` |
| `RestartsUnderOwnClosureHolds` | `UnitSwap_proofs` | `Spec => []RestartsUnderOwnClosure` |
| `UngatedIsAlwaysRecorded` | `UnitRecovery_proofs` | `Seeded` gives `Spec => []UngatedIsRecorded` |
| `RestartsAreAlwaysHeldAndNeeded` | `UnitRecovery_proofs` | `Spec => RestartsAreHeldAndNeeded` |
| `UpAlwaysRunsItsProfile` | `UnitRecovery_proofs` | `Seeded` gives `Spec => []UpRunsItsProfile` |
| `NeverIsBackToCondemned` | `UnitRecovery_proofs` | `Seeded` gives `Spec => NeverBackToCondemned` |
| `BootTypeCorrect` | `UnitBoot_proofs` | `BootSpec => []BootTypeOK` |
| `BootInvariant` | `UnitBoot_proofs` | `BootSpec => [](BootTypeOK /\ BootInv)`, the invariant behind the next five |
| `PreparedAlwaysCanStart` | `UnitBoot_proofs` | `BootSpec => []PreparedCanStart` |
| `BootRestartsUnderOwnClosure` | `UnitBoot_proofs` | `BootSpec => []RestartsUnderOwnClosure` |
| `BootUngatedIsRecorded` | `UnitBoot_proofs` | `BootSpec => []UngatedIsRecorded`, seeded or not |
| `BootRestartsAreHeldAndNeeded` | `UnitBoot_proofs` | `BootSpec => RestartsAreHeldAndNeeded` |
| `UpAlwaysRunsUnlessOvertaken` | `UnitBoot_proofs` | `BootSpec => []UpRunsUnlessOvertaken`, seeded or not |
| `TypeCorrect` | `DockerSwap_proofs` | `Spec => []TypeOK` |
| `SwapInvariant` | `DockerSwap_proofs` | `Spec => []SwapFits`, the invariant behind the next two |
| `GatedContainerAlwaysSurvives` | `DockerSwap_proofs` | `Spec => []GatedContainerSurvives` |
| `NothingUngatedIsEverLeft` | `DockerSwap_proofs` | `Spec => []NothingUngatedIsLeft` |
| `SwapStandsUpWhatItAskedFor` | `DockerSwap_proofs` | `Spec => StandsUpWhatItAskedFor` |
| `SwapKeepsTheProven` | `DockerSwap_proofs` | `Spec => KeepsTheProven`: `DockerSwap` implements `GuardedUpdate` |
| `OnlyTheDisturbedAreRefused` | `Recreate_proofs` | `Spec => RefusedOnlyWhenDisturbed`, for any number of callers |
| `TypeCorrect` | `Recreate_proofs` | `Spec => []TypeOK` |
| `EachSettingAlwaysHasItsOwner` | `Recreate_proofs` | `Spec => []EachSettingHasItsOwner` |
| `IdentityIsAlwaysItsOwn` | `Recreate_proofs` | `Spec => []IdentityIsItsOwn` |
| `CommandIsAlwaysAFreshRuns` | `Recreate_proofs` | `Spec => CommandIsAFreshRuns` |
| `CreateIsAlwaysTaken` | `Recreate_proofs` | `Spec => CreateIsTaken` |
| `TypeCorrect` | `Daemon_proofs` | `Spec => []TypeOK` |
| `StatusAlwaysSaysSwapping` | `Daemon_proofs` | `Spec => []StatusSaysSwapping` |
| `AlwaysLeavesNoStatus` | `Daemon_proofs` | `Spec => []LeavesNoStatus` |
| `RebootAlwaysSparesPlayers` | `Daemon_proofs` | `Spec => RebootSparesPlayers` |
| `RebootAlwaysWaitsForDebounce` | `Daemon_proofs` | `Spec => RebootWaitsForDebounce` |
| `TypeCorrect` | `HealthGate_proofs` | `Spec => []TypeOK` |
| `AlwaysRollsBackOnEvidence` | `HealthGate_proofs` | no resumed gate asks `uptime`: `Spec => RollsBackOnEvidence` |
| `EarlyCommitAlwaysHasBeenUp` | `HealthGate_proofs` | `Spec => EarlyCommitHasBeenUp` |
| `NeverServedIsNeverCommitted` | `HealthGate_proofs` | `TimesFit` gives `Spec => NeverServedNeverCommitted` |
| `WrongAddressIsAlwaysCaught` | `HealthGate_proofs` | `TimesFit` gives `Spec => WrongAddressIsCaught` |
| `TypeCorrect` | `Detection_proofs` | `Spec => []TypeOK` |
| `AlwaysUpdatesAfterTheDebounce` | `Detection_proofs` | `Spec => UpdatesAfterTheDebounce` |

**Assumptions on the constants.** `None` is no version and there is one; the counts are natural numbers, the ones
that are limits of the policy positive (`VersionsAssumption`, `GenerationsAssumption`,
`PolicyAssumption`, `BoundsAssumption`; `ImagesAssumption`, `SwapAssumption`, `SwapBounds`; `DaemonBounds`;
`TimesAssumption`, `GateBounds`; `NumbersAssumption`, `DetectionBounds`). Each
Docker on offer takes a range of versions that is not empty (`OffersAssumption`, `ApiBounds`), and the pass is
one of the callers (`PassAssumption`). The markers a setting can be - unset, nothing, the user's, somebody's, one by the IP
address, random - are told apart (`ValuesAssumption`). No workload is in two sources (`SourcesAssumption`). Only a unit's gate
is resumed, and a unit has no counter of its own (`SettingsAssumption`).
Nothing is assumed of `KeepGenerations`, `MaxGenerations` or of who else acts.

**Hypotheses of single theorems**, each because the property is false without it:

- `Seeded`: the profile exists when the model starts. `prepare` seeds it before a unit first starts
  (`systemd/prepare.go`), and a swap from no profile records no generation to go back to.
  `RestartsAreAlwaysHeldAndNeeded` does not need it, nor do the theorems of `UnitBoot_proofs`, where `prepare` is in the model.
- A resumed gate does not ask `uptime` (`AlwaysRollsBackOnEvidence`): section 7, d.
- `TimesFit`: the grace and one evaluation fit before the deadline, or the grace fits between two polls. With the
  code's `Poll` the floor of the grace does for every timeout up to 4, those of the gates `MCHealthGate` runs among
  them. Section 7, i, has what happens outside it. How long an evaluation takes is a constant (`Slow`); the code
  bounds each call in it, not their number.

**RestartsUnderOwnClosure** says that when the daemon is about to restart a confined unit, the
drop-in systemd has loaded is for the version the profile names. It is not inductive: going
forward it holds because bind, reload and set name one version, but going back it needs that the
generation gone back to *is* what the record says, which must survive crashes, pruning, deleted
generations whose number comes up again, and saves that fail. `ClosureInv` is that strengthening,
one conjunct per idea: what a record says of a generation still holds or the generation is gone
(`RecordFits`), and no later generation took its number (`from <= cur`: Nix numbers on from the
highest); memory and disk agree but for a record that outlived a failed save (`RecordsAgree`);
each step of the swap and of putting back knows how far closure and profile have come
(`SwapFits`, `ClosureFits`, `PutBackFits`). The proof has a lemma per group of actions and in it a
step per action.

**UngatedIsRecorded** adds `RecoveryInv` to that. That what is ungated is on record is immediate forward, where the
record is saved before the profile is set; going back it needs that the record is dropped only once the profile is
on a generation that was passed. `GoodFits` keeps the good generation, which recovery goes back to when it has no
record, at or below the current one and the one a record goes back to, so that pruning and Nix's reuse of numbers never
make it another; and `UngatedFits` says at which steps a record may still be there (`BackOrPassed`).
**RestartsAreHeldAndNeeded** is an action property, from what each step knows of the unit's invocation against the one
on record (`RestartInv`). **UpRunsItsProfile** needs the relation of what runs to the record while a swap is half
done (`RunsByRecord`: not restarted since, it runs what the swap was from; restarted, what the profile names, or the profile is
back already) for the record in memory *and* the one on disk, since a death makes the second the first.
**NeverBackToCondemned** needs that from every step the state file alone leads to a pin: either the pin is in it, or
it has the record of the swap and the unit has been restarted since, so that recovery will pin (`Remembers(disk)`
in `PinInv`), and as soon as neither is in memory the profile is on the condemned version because it passed a gate later.
That the profile of a unit restarted since is on what the swap was to, or back (`SwappedTo`), belongs to it and not to
`RunsByRecord`: a boot restarts a unit that was not swapped yet (section 7, g).

**Through reboots** the same holds for any number of boots, deaths and switches, but for `NeverBackToCondemned`, which a
reboot in a rollback breaks (section 7, f). The steps of `UnitBoot` that are `UnitSwap`'s are covered by the lemmas
about those: `UnitBoot_proofs` adds `prepare`, the reboot and the boot's start. What had to be found is how the
invariants bear them.

- *prepare writes the drop-in the daemon has bound.* It creates one only where there is none, so `ClosureFits` says
  that while a restart counts on the drop-in it is on disk, for the same version as the loaded one: creating it is then not
  possible, and reloading it changes nothing. **BootRestartsUnderOwnClosure** needs no more than that.
- *prepare sets the profile of a unit the daemon is looking at.* It does so only where there was none. `SeedInv` says that
  then nothing has happened to the unit: it never ran, there is nothing on record and no pass has got beyond finding it
  stopped (`NeverRan`). So the pass may hold a generation that is stale by now, on which it acts only by setting what it wants
  (`LookHolds`); and the invariants that need a profile start to hold with it (`SeededRecovers`), without
  the hypothesis `Seeded`. This gives **BootUngatedIsRecorded**, a reboot being to the state file what a death is.
- *The boot starts a unit under the daemon's feet.* Before that start, with nobody else about, every pass
  finds the unit down (`StartAwaited`); so whatever step the start comes at, it is at one of a stopped unit's, or in a
  recovery from what the state file says. At the steps of the first kind but for the last reload it sets `overtook`;
  at all others the profile names what the unit is started with and no pass relies on its being down
  (`RunsUnlessOvertaken`). **UpAlwaysRunsUnlessOvertaken** thereby says that the departure `BootOvertaken`
  shows is the only one of its kind: no reboot in a swap, an undo, a gate, a rollback or a recovery leads to a unit that runs
  something else than its profile names and that no pass looks at again.
- **PreparedAlwaysCanStart** is from `BootFits`, what each step of `prepare` has read of a profile and a drop-in
  the daemon has left alone since.

**GatedContainerSurvives** is that one of the two names is always worn by a container that passed
a gate or was there before any swap. Its strengthening, `SwapFits`, says per step where it is: from the
rename to the verdict it is the parked one; a created container is removed only then; and the
parked one is removed only once the named one has passed. A call may be carried out although it
failed, so `job` lags the host and the invariant is about what `job` *implies*, not what it equals. A crash
forgets `job` but not the containers. With a daemon that never died and needed no person (`Alive`), the same
invariant gives `NothingUngatedIsLeft`.

**KeepsTheProven** is proved as a refinement: `Init` maps to the abstract `Init`, and each step, under
`TypeOK`, `SwapFits` and `TargetFits`, maps to a step of `GuardedUpdate` or a stutter. `SwapFits` gives that the
proven version never changes but at a verdict. That nothing rejected is tried again needs
`TargetFits`: a pass under way wants what the tag resolves to, or is stale (the tag moved, or a pull landed, since it
looked); what it then creates is what it wants; and a digest that is condemned is pinned, or the
undo that will pin it is under way - so no pass that would stand it up gets past its decision.
`StandsUpWhatItAskedFor` is the part of that about the create.

**RefusedOnlyWhenDisturbed** rests on `NegotiationInv`: for a call that nothing disturbed, once its
first version has been refused or another caller has replaced it, the version the client holds is one that Docker
takes, or none; so the one it asks in again is. That a refused version is compared with the
one held before it is forgotten (`version.go:60`) only saves a negotiation; that it is forgotten at all is what the theorem needs.

**EachSettingHasItsOwner** and **CommandIsAFreshRuns** are about chains of swaps of any length, so the invariant is on
one container: each setting is the user's or its image's (`Owned`). For the command that is not inductive. Whether
an entrypoint is taken out depends on whether the command is unset, and Docker fills the one in only without the
other; so `CommandOwned` also says where an unset command can come from (behind the user's own entrypoint) and whose
the command is behind an entrypoint that is not the image's. `LeftExplains` is the lemma both rest on: what `recreate` leaves
of the settings, put on the old image, gives the old container. A user's setting that some image sets to the
same value is the one case nothing can tell apart (`agreed`), and both properties leave it out.
**IdentityIsItsOwn** relates three pieces of state through versions that may all differ: the container, what an
inspect in an older or newer version says of it (`SeenInv`), and the body built from that for the version it is sent in
(`BodyInv`, which alone gives **CreateIsTaken**).

**RebootSparesPlayers** is that whoever plays when logind is asked came after the last look began. `TurnInv` gives that no pass
runs while it looks; `LookInv` that the dump has everybody who was there before, and that each source already asked has
called them busy - as long as every source answered, and although a tick may take the turn between the look and the
decision. **RebootWaitsForDebounce** needs what a pass half way through a source has concluded (`StreakInv`: the
workloads of that source are exempt, the concluded ones are not). It is about the workloads a pass waits for: one that had nobody
on it when the pass came to it (`unwaited`) is settled without a streak, and is what the property names as its exception.
A unit started since then is seen by the last look, not by the debounce. **StatusSaysSwapping** and **LeavesNoStatus** are from
`StatusInv`, whose one idea is that only a pass at work holds anything: so whatever is written once the last pass is over
says that nothing is being swapped, and the file that a failed removal leaves says so too, unless that last write failed as well.

**NeverServedNeverCommitted** and **WrongAddressIsCaught** are about time. A gate commits at its deadline whatever only
waits, so the check that would see it must have decided by then. `ClockInv` says that its clock starts with the first evaluation
that ends, at most `Slow` seconds after the gate began, and that the poll has slept once since by any later look; with `TimesFit`
the last look finds the grace over. An event of Docker's cannot settle the gate before either, as it is
combined with the same checks. **RollsBackOnEvidence** and **EarlyCommitHasBeenUp** are read off one evaluation,
given that what it read of the version the version has been (`EvidenceInv`), stale as it may be, and that only the first verdict
sent counts (`ArmsInv`).

**UpdatesAfterTheDebounce** is `streak <= quiet` together with a lemma that an idle sample had nobody to see
(`IdleHadNobodyToSee`), one case per detector. For conntrack it needs an invariant over the look under way: the table was
dumped before the sample, and who was on then and still is, is in it. For netio it needs `Honest`, a part of the type
invariant: a difference of the counter that no restart came between is what truly moved.

Every inductive invariant was checked by TLC on the instance of its run, as an invariant of it, before it was proved; those
of `UnitBoot` also with a failing call and an act of somebody else's beside the reboot and the deploy, confined and not.

**Only model-checked:** every liveness property (`SwapResolved`, `Converges`, `ConvergesThroughReboots`, `GateReturns`,
`QuietIsUpdated`, `TickNeverWaits`, `StopEnds`, `RebootHappens`), out of the prover's reach as they need fairness. Every
safety property that a passing run checks is a theorem.

## 6. Where the code departs from what it says

Each has a run that shows it, and quotations in `PROJECT.json`.

- **`BootOvertaken`** (`systemd/source.go:369`). The daemon is ordered after neither `prepare` nor the units it
  manages (`nix/module.nix:407-411` of the repository's root). Its first pass at a boot can find a unit stopped, and move the profile
  of it while the boot starts it on the version before: the unit is up on the old version, its profile names the desired
  one, so every pass keeps it as it is.
- **`GateAbandoned`** (`systemd/source.go:443`). The gate's first read of the unit fails: the swap
  stays on record, and nothing gates or undoes it until the daemon is started again.
- **`DockerStopLost`** (`docker/source.go:583`). A stop that Docker carries out but whose answer is
  lost is not on the undo list: the container stays down, is no longer listed, and nobody is told.
- **`NetioTicks`** (`detect/netio.go:64`). The activity tick moves netio's last reading, so a pass
  measures from the tick and not from the pass before, and can update over traffic it would have
  seen.

## 7. What else the models showed

Seen while modelling, and worked around by name rather than by leaving it out silently:

- (a) Somebody restarts the unit after a swap is recorded and before its profile is set, and the
  daemon dies between the set and its own restart: the next daemon takes the other restart for the
  swap's own (`systemd/source.go:667`: the invocation id changed), gates the old version and commits
  the new one.
  `UpRunsItsProfile` is therefore about a unit nobody else touched.
- (b) A daemon that dies inside a rollback, after its restart, restarts a unit that is already back
  (`systemd/source.go:699`). `RestartsAreHeldAndNeeded` allows it: the unit has been restarted since
  the swap began.
- (c) `port-connect` is settled by docker-proxy's accept on the published port although the
  container's own address refused (`health/checks.go:269-272`, against `docker/labels.go:71-73`).
  `WrongAddressIsCaught` leaves out ports that are proxied.
- (d) A gate resumed on a unit that is still activating fails `uptime` at its first poll
  (`systemd/source.go:778`, against `docs/systemd-source.md:452`), which rolls back and pins a version that was
  only slow. The resumed setting of `MCHealthGate` runs without `uptime`.
- (e) A restart under the same container id resets netio's counter, and once it has passed the
  last reading again the difference is short (`detect/netio.go:74`); a host-networked container
  has no counter and always reads zero. `UpdatesAfterTheDebounce` is about what the detector had
  to see.
- (f) Somebody stops the unit, or the machine reboots, while a rollback is under way: recovery finds a
  stopped unit, puts the profile back and drops the record without a pin (`systemd/source.go:667-694`), and the
  profile is then moved to the desired version as any stopped unit's is - the one just condemned. Whoever
  starts the unit next runs it ungated. `NeverBackToCondemned` is about a unit nobody else touched.
- (g) A reboot after a swap is recorded and before its profile is set: the unit comes up on the version it was
  on, under a new invocation, which is taken for the swap's own restart (`systemd/source.go:667`); as the profile
  is where it was, a rollback is taken to have been under way, and the version is pinned though it was never tried
  (`systemd/source.go:716-724`, against `statestore/statestore.go:31-33` and `docs/systemd-source.md:450-452`).
  `ConvergesThroughReboots` counts a pinned version as settled.
- (h) A stopped unit's profile is moved before systemd is reloaded, and a reload that fails is only logged
  (`systemd/source.go:369-379`): later passes see nothing to do, and a confined unit cannot start what its
  profile names until something else reloads systemd. Between the two calls the same is true of a boot that starts it.
  `PreparedCanStart` leaves out a unit the daemon has moved since the boot (`moved`).
- (i) The grace of `uptime` and `port-connect` is kept under the timeout so that they decide before the deadline,
  "with real margin" (`health/gate.go:68-77`). But it starts when the first evaluation comes to the check, after
  what it did before: the checks run in the policy's order, each silent address `port-connect` dials
  takes two seconds (`health/checks.go:121-122`), and its own clock starts after its dials (`health/checks.go:278`). With a timeout
  of 5 the grace is 3, and a clock that starts 3 seconds in has not run out at the last look: a version that
  never served is committed (TLC finds this with `Slow = 3` and a timeout of 5). `TimesFit`
  is the margin the theorems need: with the default timeout of 120 seconds an evaluation may take 90.
- (j) A status file that cannot be removed outlives the daemon, as the error is discarded (`daemon.go:425`, against
  `daemon.go:386-388`: "clearing the status on the way out"). `LeavesNoStatus` names the case, and says what such a file
  still may and may not claim. Its age is what a reader has left to go by (`status.IsStale`).
- (k) A container that cannot be recreated (`docker/source.go:482-487`) and has an update waiting is held and reported
  as not settled at every pass on which it is idle (`docker/source.go:332`: an update was the action), so it keeps an
  automatic reboot off for as long as the update waits. `RebootHappens` is about workloads that can be swapped.

## 8. What is not modelled

- The registry, the HTTP and D-Bus messages, parsing of `/proc`, netlink, units files and labels,
  the text of drop-ins, logs and status: no state of their own, and the sources see only an answer
  or none. A registry lookup starts over each time, and one that fails leaves its container alone
  for the pass. The settings a recreate passes through as Docker wrote them are not in `Recreate`.
- The reboot window's clock arithmetic (`reboot/`): in `Daemon` the window is open or closed.
- In `Daemon`: a unit on its way up or down, whose streak starts over, and what a source finishes of a swap it finds on
  record, which are `UnitSwap`'s; whoever is on a container that is not opted in, whom no verdict of the source's is about
  (`docker/source.go:247-252`), so that `playing` leaves them out.
- A drop-in bound for another profile (`nix/closure.go:115-122`): the declaration's profile does not change.
- Image pruning changes nothing modelled. A dry run changes nothing at all.
- More than one unit or container in a source: they share nothing but the pass, which `Daemon`
  models over several workloads.
- File-system atomicity of the state file and the status file is taken from `rename(2)`.

## 9. Plan

Done, in this order: `UnitSwap` (most state, and persisted), its invariant and proofs; `Daemon`;
`DockerSwap` and its proofs; `HealthGate`; `Detection`; `ApiVersion` and `Recreate` with the proof of the
negotiation; `UnitBoot`; `GuardedUpdate` and the proof that `DockerSwap` implements it; then the safety
properties of `UnitSwap`, `Daemon`, `HealthGate`, `Detection` and `Recreate` as theorems,
and those of them that survive a reboot over `UnitBoot`, with what `prepare` leaves.

Left, beside the liveness properties, which stay with TLC:

1. The window's arithmetic (`reboot/reboot.go:34-105`: parsing, days, the wrap over midnight) as operators, checked
   against a definition by enumeration of a week. `Daemon` takes the window to be open or closed.
2. A repair of the departures of section 6, should one be made in the code: `BootOvertaken` is the one whose repair the
   theorems would show at once, `overtook` then being never set.

## 10. Running

    tlc -workers 2 -config MCUnitSwap.cfg MCUnitSwap
    tlapm UnitSwap_proofs.tla

and the same for the other runs and the other `*_proofs` modules. Each run ends within five minutes on two cores. `PROJECT.json` lists, for each property of each
passing run, a mutated definition (`as`) of one that models code (`of`); with it in place of the
original TLC finds the property violated.
