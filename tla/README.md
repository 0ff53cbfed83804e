# Formal models of the Kryonix installer daemon (kryxd)

The daemon in `src/` installs NixOS from a live ISO: a web UI (`ui/src/`) builds a
plan in ten steps, the daemon validates it, and one job partitions a disk,
generates a NixOS flake on it and runs `nixos-install`. These modules state what
that job, the requests around it and the wizard that leads to it must guarantee,
check it with TLC on small instances, and prove the central parts with TLAPS for
every value of the constants.

## The system

| component | state it keeps | operations | what makes it hard | what must hold |
|---|---|---|---|---|
| install job (`src/main.rs`: `install`, `install_status`, `save_install_state`, `load_install_state`) | `InstallStatus` behind an `RwLock`, copied to `/tmp/kryonix-install-state.json` | POST /install, the spawned task, restart | concurrent requests, panics in the task, failing saves, restarts | one install at a time, a status that is true, a slot that is given back |
| executor (`src/executor/*`) | `/mnt/etc/kryonixos`, `/tmp/kryonix-disko-config.nix`, partition tables, mounts | `run_installation`, eleven steps, most of them external commands | every step can fail; a retry starts on what the last run left; `/mnt` changes meaning when disko mounts | nothing destroyed before the plan evaluates, the right disk, success only when something was installed |
| dry-run (`dry_run`, `run_disko_dry_run`) | the same configuration file | POST /dry-run | no lock around write and read | the answer is about the plan asked about |
| plan validation, safety checks (`validate_plan`, `executor/safety.rs`, `disk.rs`) | none (reads the disks) | called by both handlers | results get stale; u64 arithmetic on user sizes | a plan that passes fits and does not touch the running system |
| v2 install service (`src/api/install.rs`, `services/security.rs`) | digest directories, secrets, a shared render | /plan, /secrets, /preflight, /install | crash between files, concurrent deploys | a stored plan is whole; secrets belong to their plan |
| partition planner, v2 target tree, migration (`src/services`) | staging directories | pure functions; tree publication | sizes, alignment, partial publication | layouts fit; a published tree is complete |
| media storage (`services/media_storage.rs`, `api/storage.rs`) | staging and final files | begin, append, finalize, abort | crash between create and rename, size checks | no half image under a final name; nothing replaced |
| GitHub flow and sources (`auth.rs`, `source.rs`) | device code, token, clone paths | start, poll, list, clone | polls that return after a new flow started | a token belongs to the current flow |
| profiles (`profiles.rs`) | a host's `default.nix` | apply | read-modify-check-revert without a lock | an accepted profile stays |
| network (`network.rs`) | NetworkManager connections | wifi, apply | modify succeeds, activation fails | answers say what is configured |
| KVE / Incus / cluster (`providers`, `services/kve.rs`, `api/v2`) | none of its own, mostly | queries and instance operations | unreachable daemon, partial lists | errors are not shown as empty lists |
| sessions, console (`api/auth.rs`, `api/console.rs`) | JWTs, a PTY per socket | login, websocket pumps | one pump ends before the other | no PTY outlives its socket |
| kryx crate | none | configuration validation, capabilities, Nix rendering | validation rules | what is rejected and accepted |
| wizard (`ui/src/WizardInstaller.jsx`, `state/wizardState.js`, `pages/*`) | the step, the draft of the plan, transient state, both in the browser's storage | edits, next, back, jumps, import, reload; answers of the daemon | steps judged once and changed later; answers that arrive after the page was left; what a reload brings back | the install step is entered with everything the earlier ones demand |
| disks step (`pages/Disks.jsx`, `utils/storagePlanner.js`, `hooks/useDiskTopology.js`) | inventory, confirmation | load, reload, pick, confirm; effects that mend the selection and report what blocks | state mirrored by effects; disks that come and go | what is left behind is one eligible, confirmed disk |
| layout assistant (`utils/layoutAssistant.js`) | none | presets, hand-made partitions | sizes at their boundaries | what it accepts fits the disk |
| plan builder (`utils/installPlan.js`, generated schema) | none | build, validate, judge a step | the builder, the schema and the steps each have rules of their own | what is built conforms |
| time zone map (`utils/timezoneProjection.js`, `utils/nearestTimezone.js`) | none | project, read a click | shifts, wrap-around, stretching | a click on a pin is that zone |
| install console (`hooks/useInstallExecution.js`) | phase, stream, timer | hydrate, start in three requests, follow, reconnect | late answers, broken streams, verdict before status | one stream; a running installation is followed |
| dashboards, KVE views (`ui/src/views`, `components`) | forms | show what the daemon answers | – | – |

How they interact. The UI calls the daemon over HTTP. POST /install takes the
job slot under the write lock, then spawns a task that calls `run_installation`
and, when that returns, takes the lock again to report. `run_installation` and
POST /dry-run share one configuration file in `/tmp`. Progress is broadcast on a
bounded channel that the event stream reads. The state file is read once, when
the process starts.

## Modules

| module | models | state and actions |
|---|---|---|
| `InstallSlot` | the promise of POST /install: a slot with at most one holder | `holder`, `verdict`; Grant, Refuse, Complete, Die, Restart |
| `InstallJob` | the handler, the task and the state file | `handler[r]` is where a request's handler is, `job[r]` its task, `status` and `state_file` the two copies of `InstallStatus`. The eight handler steps follow the order of `install`; `Reserve` is the block under the write lock with its save; `ReportOk`/`ReportError` are the task's two final blocks; `Restart` is the process dying and `main` loading the file |
| `InstallJobRefinement` | the mapping from `InstallJob` to `InstallSlot` | `holderBar`, `verdictBar` |
| `InstallExecutor` | `run_installation`, one action per awaited call or group of writes with one outcome | `live` and `root[d]` are the live system's `/mnt` and each disk's root; `mounted` says which one `/mnt` is; `conf` is the shared file. A group that fails may have written any part (`Mixed`); a daemon that dies inside one leaves what such a failure leaves. `Crash` may come between any two calls; `DryRunWrites` is another request's write |
| `DryRun` | POST /dry-run | `handler[r]`, `conf`, with opening (truncation) and writing as two steps, and a write that outlives a dropped handler |
| `InstallDaemon` | `InstallExecutor`, extended by an instance of `InstallJob` | both over a shared `mode`; a job runs the executor's calls between its reservation and its report, and the task's return is the executor's |
| `PlanStore` | the v2 plan store: POST /api/v2/plan and PUT /api/v2/secrets | `store[p]` is the directory of a plan, a file being named by the request that wrote it; `temp[r]` the temporary file of `atomic_write`, which a rename publishes with what it holds; its guard may fail to remove it. One action per system call that can fail or be the last before a crash; `file[r]` says which of the two secrets files is being written |
| `DeviceFlow` | signing in to GitHub: `auth.rs` and the loop of the source step | `flow[f]` is where the start and the polls of a flow are, `code` and `token` what the daemon keeps, `github[f]` what GitHub knows of a code; one action per request sent, GitHub's answer, and store under the lock |
| `StoragePlanner` | `storagePlanner.js`, `useDiskTopology.js` | operators: the sorted inventory, eligibility, layouts, RAID levels, capacities; recursion is over functions of the prefixes of a list, so that proofs can expand it |
| `LayoutAssistant` | `layoutAssistant.js` | operators: presets, allocation, what a list lacks |
| `WizardState` | `wizardState.js` | the fields of the draft and of the transient state, `Patched` |
| `FeatureCatalog` | feature, capability and profile catalogues; toggling | operators: what toggling, presets and profiles select, what the builder refuses |
| `InstallPlan` | `installPlan.js` and the generated schema | operators: the plan of a draft, `BuildReasons`, `SchemaReasons`, `ValidateStep` |
| `TimezoneCatalog` | map regions, projection, nearest zone, localisation catalogues | operators in fixed point |
| `WizardPage` | `updateWizard`, extended by the pages | `draft`, `ui` |
| `WelcomePage`, `TimezonePage`, `SourcePage`, `NetworkPage`, `FeaturesPage` | the pages of these steps | one action per control and per answer that arrives |
| `DisksPage` | the disks step, a specification of its own | `disks` is the page's state; every action ends with the page's effects |
| `ManualTab` | the manual tab of the disks step, over the disks the page lists | operators: when its button is enabled, which disk a new partition goes to and how large it is made |
| `Wizard` | all ten steps: `DisksPage`, `SourcePage`, `NetworkPage` and `FeaturesPage` as instances over the wizard's `draft` and `ui` | `stepIndex`; navigation, import, reload; `blank` says the last render threw |
| `InstallConsole` | one mount of the install hook against the daemon's status, verdicts and stream | `checks[k]` is a question in flight or the status on its way, `stream[s]` a stream or the verdict in it, `ref` the one that can be closed |
| `*_proofs` | theorems | see below |
| `MC*` | constants for TLC | |

History variables (`latest`, `lossy`, `evaluated`, `treeAt`, `foreign`, `read`,
`disturbed`, and in `DeviceFlow` `latest` and `overtaken`, in `Wizard` `imported`
and `detour`) are only read by properties and by other history. Operators named
`X_Something` next to `X` are wrong versions of `X`, each breaking one property;
no specification uses them.

Abstractions. A plan is its `disk.mode` and its target disk; what
`validate_plan` and `run_safety_checks` answer is a choice. A generated file is
named by the request whose plan it renders, a disko configuration by the disk
(`InstallExecutor`) or layout (`DryRun`) it describes. External commands succeed
or fail at will, and leave what they may leave when they fail. `last_error` and
`last_log_line` repeat the phase and are left out. RAID and manual layouts, where
several disks are involved, are not in `InstallExecutor`.

Abstractions of the wizard. Names, addresses and passwords are the classes the
validators tell apart. A page's effects settle in the action that caused them.
Keyboard and buttons ask for the same and are one action; the footer's lock of
250 ms against double clicks is left out. Where nothing can come between a
request and its answer that matters (refreshing interfaces, joining a wireless
network) the two are one action; everywhere else an answer is an action of its
own. A branch is part of the repository. Netmasks are left out (the selects offer
valid ones, and the plan always says /24), and so is reading an imported file,
which is immediate; a field missing or empty in a file is not taken over.
`installRunning` is a guard that nothing in `Wizard` sets, because the page that
sets it never renders. The catalogues of countries, zones and keymaps are the
internal ones, because `installerApi` answers without the `items` their pages
look for. Coordinates are hundredths of a degree; the distance in pixels, which
only breaks ties, lies between the longer side and the sum of the sides.

The daemon sends the sizes of disks as labels, so no disk of the page ever has a
size (`parseBytes`): RAID offers and presets are checked on disks that are given
one. The user of `DeviceFlow` may approve any code that was issued, although this
UI does not show it. `InstallConsole` is the hook and the page's buttons as
written, although the page itself does not render today; its draft has nothing
blocking. Text of logs and labels, and `streamConnected`, are left out.

## What the runs check

| run | question | result |
|---|---|---|
| `job` | Can two installs run together, can a live one be shown as free, can the slot be taken for nobody, can the status be about another job? Is the whole the slot of `InstallSlot`? Does an accepted job end, is every request answered? | none of the first four can happen over three requests; yes to the others |
| `job_restart` | Does a restart free the slot, as the 409 answer suggests? | no: the loaded status still says running |
| `executor` | Is a disk touched before evaluation, or another disk than the plan's? Is what is installed this run's tree, with the hardware that is mounted? Can the flag or Ok be left by something not installed? Does every run return? | it holds over two runs and two disks, except for the disk when a dry-run overlapped, and for the tree's lock when an earlier one could not be removed |
| `dryrun` | Is an undisturbed answer about its own plan? Is every dry-run answered? | yes |
| `dryrun_race` | Is an ok always about the plan asked about? | no, with two concurrent requests |
| `daemon` | Does anyone enter the executor while another is inside, or with a plan that was not accepted? Does the job end with the executor's own steps in it? | no, no, yes |
| `planstore` | Does a reader ever find half a file, is a plan that was promised ever missing, does `ready` mean the secrets of this request, what leaves a temporary file behind, is everyone answered? | it holds with failures and crashes between any two system calls; for `ready`, unless another request wrote secrets of the same plan meanwhile; a temporary file is left by a dead daemon, or after an error answer when its removal failed too |
| `disks` | Can the disks step be left with no disk, a dead one, an unconfirmed one, or two? Does a disk that went away stay selected, does one that is there get replaced? Do the RAID levels, the presets and the manual tab's partitions keep their promises on disks of known sizes? | no; no; no; yes |
| `wizard` | Is the licence always accepted first? Is a repository shown as ready the one that was cloned? Does every pin of the map mean its own zone? Does the install step find everything the earlier steps demand, whatever was changed, reloaded or answered late? Can the lock of the network step be left with nobody to lift it? Can the disk that will be erased move unasked? | yes; yes, unless a clone was overtaken by a change of kind or a reload; yes; yes, short of the connection and of an imported file; only by a reload, and then for good; only on the disks step, by a listing that has disks, when none was picked or the one picked is not among them |
| `wizard_install` | Does the install step show its page? | no: it reads sections that no plan has |
| `console` | Does the console ever follow two streams or lose hold of one? Can it say running and be attached to nothing? | no; no |
| `device` | Is the daemon's token that of the flow started last? Does every page stop polling? | yes, unless a start overtook a poll; yes |

The passing runs check safety and liveness in one pass, under the fairness below.

Which of these the current program can reach. `install` lets only the modes
`install` and `real` through and hands them on; `run_disko` accepts neither
(`src/main.rs:1356`, `src/executor/partition.rs:25`), so no accepted install gets
past that check today (`AcceptedInstallStopsAtMode`). The executor's runs explore the modes `run_disko` itself
accepts: what they show about the steps from disko on is about the code as it
will run once a caller passes such a mode. `InstallDaemon` is the program as it
runs now. In the same way the wizard cannot enter its last page today
(`wizard_install`), and `InstallConsole` is about that page once it renders.

### Seen in the code

What one read shows, or what a model shows and no text of the repository
contradicts. None of it is a checked claim.

Daemon. The mode documented for /dry-run, `dry-run`, is rewritten to
`destroy,format,mount`, which `run_disko_dry_run` refuses. Tree and lock are
written to `/mnt` before disko mounts the new root there, and are hidden by it.
`write_storage_generated` copies `/tmp/kryonix-disko-config.nix` into the tree as
the "snapshot do que rodou" before `run_disko` writes it. `verify_disk_install`
promises a mounted root and only tests that `/mnt` exists. A device-flow poll that
a new start overtook stores the older flow's token and forgets the newer flow's
code (`src/auth.rs:214-222`). `finalize_engine` ignores that it could not remove
the lock of an earlier run (`src/executor/target_tree.rs:400`), and
`nix flake lock` keeps a lock it finds: such a run is evaluated and installed with
the earlier lock, and nobody is told. `PendingFile::drop` ignores in the same way
that it could not remove a temporary file (`src/api/install.rs:848`): a request
answered with an error can leave its `.<file>.<uuid>.tmp`, and nothing removes it
later.

Disks step. `validateStep('disks')` projects the topology from fields no draft
has, so the step is always judged as one that needs a single disk; with two
eligible disks a click on the second makes it the data disk, which nothing clears,
and the step stays blocked although `useDiskTopology` and the page offer a split
layout. A confirmation survives the replacement of the disk it was given for. An
error while loading leaves no reload button. ZFS, and btrfs on a data disk, pass
every step but the summary: the quotas they need have no input.

Plan. The time zone, keymap, language and the administrator's keys never reach
the plan, which has no section for them. An exported plan lacks the sections that
an import requires. An import replaces the disks and keeps the confirmation, and
what it brings for steps already passed is not judged again. The default profiles
`desktop`, `development`, `server`, `server-dev`, `server-ai` and `full` contain
features the builder refuses to build a plan with. A list that names a name server
twice passes the step and fails the schema. The repository typed for one kind of
source stays in the plan when another kind is chosen.

Network step. `netApplyBusy` is stored, so a reload while a network is applied
locks the navigation for good (`OnlyReloadStrandsTheLock` says that nothing else
does, and that nothing lifts it). A status on its way overwrites an address typed
meanwhile, and undoes the choice to go on offline. The replacement of the
management interface when interfaces arrive keeps the confirmation that the old
one was identified.

Console. An installation started here is a deploy of the v2 service, while status
and stream are those of POST /install, so its `running` only ends when the stream
breaks and the status says otherwise. A hydration answered after a start replaces
what is shown and offers the start again. A stream that reconnects after the
verdict was sent is not sent it again. A timer armed by an answer that came after
the page was left opens a stream nobody closes.

Never shown: manual partitioning (no disk has a size), the LVM and RAID tabs (no
button), the sign-in to GitHub past its first card (its fields are not in the
wizard's state), `ProfileSelector.jsx` (imported nowhere), `MachineProfile.jsx`,
`RemoteAccess.jsx` and `UserFeatures.jsx` (not among the steps).

### Bounds and fairness

Bounds. Three requests for the job: one runs, one meets it, one comes after.
Modes: one that executes, one that validates, one that is refused. Two runs of
the executor and two disks: a retry on what another run left, on the same or on
another disk; four modes, one per effect disko can have (refused, wipe and
mount, format, mount only). Each request is sent, and each run made, once, which
keeps the models finite; no other counter exists. Three dry-runs: two that
overlap and one whose write was left behind. One disk in the composition, where
the question is who runs, not what is wiped. The dry-run and plan store models
stop when every request was answered, so deadlock is not checked there; the other
models of the daemon never stop.

The plan store: one plan, since requests that name other plans work in other
directories; one request saves it and two write its secrets, which is enough for
one to meet the other's files, or those of an earlier life of the daemon.

The disks step: seven answers of the daemon in any order, with no disk, one, two,
one of two ineligible, four, and one answer that is unsorted and lists a disk
twice; nothing else is bounded. Layouts and RAID levels: sizes around each
threshold, in units of the smallest partition (`Sizes`), on disks that hold up to
two partitions already (`Held`); the manual tab starts from none or one (`HandMade`).

The wizard: two disks of which one may disappear, two repositories of which the
schema refuses one, one kind of each other offer whose effects differ. What a step
demands may always be filled in; beyond that the user either goes back once, or
changes things on one page, once or (source, network) twice, or imports one of
three files and then moves freely. This is what it takes for a step already passed
to become wrong, and for a late answer to meet it; behaviours that combine changes
on several passed pages are not explored.

The console: `MaxChecks`, `MaxStarts`, `MaxLoose` and `MaxJobs` are in
`InstallConsole.cfg`: two questions in flight, so that answers arrive out of order,
two starts, timers nobody can cancel, and jobs of other clients. The proofs need
no such bound. The device flow: two flows, of which either may start, poll
and end first, or be left behind by a reload.

The disks, wizard and console models have no fairness and no liveness: a user may
stop anywhere. Deadlock is checked in the first two; console and device flow stop
when their bounded starts, questions and jobs are used up.

Fairness. `InstallJob`: weak fairness of each request's handler and of its task,
because the tokio runtime polls whatever can run and the lock is only held
across synchronous code. Nothing makes clients send, or the process die or
panic. `InstallExecutor`: weak fairness of the next call, which assumes external
commands end; the code gives them no timeout, so a hung `nix` hangs the job.
`DryRun` and `PlanStore`: weak fairness of each handler. `DeviceFlow`: requests are
answered, timers go off and codes expire (GitHub sends a date of expiry); nobody
has to approve, start or reload. `InstallDaemon`: that of
the job and that of the executor.

## What is proved

`InstallJob_proofs`, for every set of requests and every set of modes, from the
one assumption that `NoRequest` is not a request:

- `AtMostOneInstall`, `LiveInstallHoldsSlot`, `TakenSlotIsExplained` and
  `StatusIsTruthful`: the invariants of `job`; and `TypeCorrect`, that every
  variable keeps its type, which no run needs to check for that reason.

They follow from `IInv`, which adds what the code relies on without saying so.
`OwnerIsLatest`: only the last request that reserved the slot can own it, so the
report of a task frees nobody else's slot; it implies mutual exclusion.
`FileFollowsStatus`: unless a save was lost, loading the file gives the status,
so a restart changes nothing a client was told. `JobFollowsReservation`: a
request not yet accepted has no task. One lemma handles the eight handler steps
that do not touch the slot, one each the reservation, the task's moves, the
report and the restart.

- `JobImplementsSlot`: `InstallJob` implements `InstallSlot`, also assuming that
  the two slot values are no requests. `SlotView` says what the mapping shows in
  each stage of a request; each step then is one step of the slot or none.

`InstallDaemon_proofs`, for every set of requests, modes and disks, from the
assumptions that the values standing for no request, no disk and an absent file
are none, and those for an absent file and for a tree of mixed origin differ.
About the executor alone, whatever mode it is given:

- `TreeIsThisRunsAlways`, `HardwareMatchesMountAlways`, `FlagMeansInstalledAlways`,
  `OkInstalledThisPlanAlways`: what is installed is the tree this run wrote, with its
  own lock unless an earlier one could not be removed, and with the hardware that is
  mounted, and neither the flag nor an Ok is left by less.
- `NothingDestroyedBeforeEvalAlways`, `OnlyTargetDestroyedAlways`: the two action
  properties about what disko may wipe.

The invariant says of the next call what it relies on. `RunOK` is about the run:
the tree was evaluated, `/mnt` is still what it was when the tree was written,
the configuration is that of this run's disk unless a dry-run wrote its own.
`MntOK(pc, Mnt, lockKept)` is about the files below whatever `/mnt` now is, so that a step
is either a write of one file system as its next call expects it, or touches
none. disko is the only step that changes which file system that is, and the
calls after it ask only for what the second hardware module writes again.

About the composition:

- `ExecutorIsExclusiveAlways`, `OnlyAcceptedPlansRunAlways`: nobody enters the
  executor while another is inside, nor with a plan that was not accepted. From
  `TaskInside`, a run in progress has the task of its own request waiting for it,
  and from the mutual exclusion already proved of the job.
- `DaemonImplementsExecutor`, `DaemonImplementsSlot`: the composition is the
  executor's specification and, through `InstallJob`, that of the slot, so all
  the theorems above hold of the daemon.
- `AcceptedInstallStopsAtMode`: with what the handler accepts and `run_disko`
  refuses today, no run gets past `run_disko`'s check of the mode.

`PlanStore_proofs`, for every set of plans and requests, from the assumptions
that no request is of both kinds and that the values standing for a missing and
for a torn file are no requests: `ReadyIsOwn`, `StoreIsWhole`, `CreatedPlansStay`,
`LeftTempIsExplainedAlways` and, again in place of a run, `TypeCorrect`. The invariant
adds what is already in place while a request is still writing (`OwnFiles`), the order
of the two files (`SecretsInOrder`), that saving a plan touches no secrets and the
reverse (`FileFits`), and that nothing is renamed before all of it was written
(`WholeBeforeRename`), which is what `StoreIsWhole` rests on: a rename publishes what
the temporary file holds.

`DryRun_proofs`: `VerdictIsOwn`. The invariant (`Undisturbed`) is about dry-runs
between opening the shared file and reading it back: no write of somebody else is
still to land, dropped handlers included, so the file holds what they wrote.

`DisksPage_proofs`, for every set of answers of the daemon, in any order:
`PassedStepIsSound`, `DiskStays`, `SelectionStaysEligible`, `RaidOffersStaySound`
and `LayoutsAlwaysFit`. For the first two the invariant says that the report and the confirmation in the
wizard's state are never behind the page's (`Reported`) and that the draft never
grows the fields the topology is projected from (`Fields`); soundness then follows
from the two sets of reasons together, neither being enough alone.

For the selection, `SInv` adds that the selection names numbers and that the
inventory lists every path once. That is
what the planner's filter, its removal of duplicates and its sort compute, and
they are recursive. The library's induction theorems take a predicate as a
parameter, which the provers cannot instantiate; `UpTo` and `Recursion` are the
same principle about a set of numbers, which they can. `KeptElements`,
`KeptDistinct` and `SortedListing` follow from it.

`OfferIsSound`, for every list of disks of known sizes and every level: a RAID
level is offered only with members enough, all eligible, and promises no more than
is left after the losses it survives. `RaidOffersStaySound` is the property of the
run, on the members the page may list.

In the same module, for every draft and every disk: `BuiltStorageConforms`,
assuming that quotas are absent or valid, which is all the wizard can make them,
and `PresetFitsDisk`, assuming sizes that are natural numbers; for every list of
disks with paths of their own and every list of partitions, `AddedPartitionFits`: the
partition the manual tab adds fills one disk up and overflows none. The sum over a
list is again by induction on its prefixes (`AllocatedRecurs`).

`LayoutsAlwaysFit` is the run's property, from these two: the disks the manual tab
is given have paths of their own because the inventory lists every path once
(`SInv`), and they are as many because filtering keeps what it does not drop
(`EligibleListed`). What was a computation on a sample of sizes is thereby true of
every size, and of every inventory the daemon may answer with.

`Wizard_proofs`, for every answer, capability, interface and imported file:

- `EulaFirstAlways`: no step after the licence is shown before it is accepted,
  whatever is reloaded or imported.
- `ReadyIsForThisSourceAlways`: a repository shown as ready is the one that was
  cloned, unless a clone was overtaken.
- `EntersInstallIsSound`: whoever enters the install step brings everything the
  earlier ones demand, short of the connection, of an imported file, and of a source
  whose clone was overtaken.

The invariant `WInv` carries the last one. `Passed` says that what a step demanded
still holds as long as the wizard is past it; every action is shown either to
belong to the page that is on screen, which the wizard is not past, or to be a
late answer or a reload that leaves the fields of the passed pages alone.
`PagesShown` and `Shape` say which pages are mounted and which fields there are,
and `Reported` is the disks page's own invariant, instantiated.

- `OnlyReloadStrandsTheLockAlways`: of all steps of the wizard only a reload
  leaves the network's lock without a request that will lift it, and from then on
  no step lifts it or leaves the network step.
- `DiskMovesAreAskedAlways`: nothing but the disks step and an import writes the
  disk that will be erased, except the page's own effect when a listing with
  disks arrives and none was picked or the one picked is not among them; a failed or
  empty listing and a reload move nothing.

For the lock the invariant is `BusyShown`: while the lock is on, the wizard is on
the network step. It is what makes the lock last: the step's controls, the
navigation and the import are all held by the lock, so no other page can become
the one that acts. For both, every page's step is first shown to write only the
fields it owns, by one lemma per page (`Only`).

- `PassedStepIsSoundInWizard`: the disks step is left with one eligible disk picked
  and confirmed also with the whole wizard around it, after any import or reload.
- `TypeCorrect`, `TypeCorrectBeforeImport`: the draft, the transient state and what
  the pages keep for themselves hold what the pages expect, whatever is answered
  late.
- `SelectionStaysEligibleInWizard`: whatever lies between two visits of the disks
  step, the settled page keeps no disk selected that it does not offer.

For the first, the theorems of `DisksPage_proofs` are instantiated (`DP`). Each
action of the wizard is then either a step of that page alone
(`DisksStepIsThePages`), or leaves its fields alone (`DisksLeftAlone`), or shows it
anew (`DisksShownAnew`). The report never falls behind, so what an import wrote
cannot pass unjudged. The other three use `TInv`: the two invariants of that page,
the kinds of values field by field (`DraftHolds`, `UiHolds`), the catalogues, and
the questions in flight (`ChecksFit`). Two things are assumed there:

- `ImportsTyped`, from the first import on: an imported file holds values of the
  kinds the pages give the fields. The importer looks at the sections only, so this
  is the user's to see to; before an import nothing is assumed. `MCWizard` has TLC
  evaluate it for the files of the run.
- `DefaultsAreListed`: the initial country, keymap and zone are in the catalogues. It
  has no parameter; TLC evaluates it in every run of the wizard. The provers cannot,
  because the catalogues are written with `@@`.

`InstallConsole_proofs`, for every value of the four bounds: `StreamIsOne` and
`RunningStaysFollowed`, by one invariant that also ties the timers and the
questions in flight to the stream that was closed for them.

`DeviceFlow_proofs`, for every set of flows: `TokenIsLatest`.

### Only model-checked

- Liveness: that an accepted job ends, every request is answered, every run and
  every dry-run returns, the job ends with its run, and pages stop polling. It
  rests on fairness and ENABLED, which the prover does not treat.
- `PinsAreClickable`: a computation on constants, the catalogue of zones.
- That `install` refuses a slot that a restart left taken, that two dry-runs can
  mix, that the last page does not render: these are the runs that end in a
  violation.

## Plan

Done: the install job with its abstract slot, refinement and proofs; executor,
dry-run and their composition; the plan store; the wizard with its pages, the
planner, the builder and the map; the install console; the device flow.

Proved since: the executor and its composition with the job, the wizard, the
selection, the RAID offers, the presets and the manual partitions of the disks
step; the wizard's lock and the disk it erases, its types, and the disks step's
theorems with the other pages around it.

Next, in this order:

1. `MediaStorage` and the v2 target tree: staging and publication, after the
   pattern of `PlanStore`.
2. The sizes and layouts of `validate_plan` and the safety checks with their
   width, and the partition planner, as operators against reference definitions.

## Not modelled

The second half of `InstallExecutor`'s plans (RAID and manual layouts): no plan of
this UI has one. `apply_profile`, nmcli, the console's PTY, KVE and Incus: each is
a handler over a service outside the repository, with little state of its own. The
pages and controls listed above as never shown. The dashboards, styles and
translations, read-only reports of the host, the text of generated Nix modules and
packaging: nothing in them has a state that a property could be about.
