# A TLA+ verification of csi-driver-rclone

The driver mounts rclone remotes into Kubernetes pods. It runs as one process
per node: a gRPC server for the CSI services, a map of the mounts it serves, the
rclone library with its process-wide in-memory config, and an HTTP endpoint for
Prometheus. This directory models the parts that keep state, checks them with
TLC on small instances and proves the central invariants with TLAPS.

## The system

| Part | State | Operations | What makes it correct |
|---|---|---|---|
| Node service (`pkg/rclone/nodeserver.go`) | `mountContext` under `mu`; `configMu`; rclone's config sections; kernel mounts | `NodePublishVolume`, `NodeUnpublishVolume` | one operation per target; answers that are true; no mount, VFS or section without an owner |
| Operation locks (`utils.go`, `VolumeLocks`) | set of `volumeID-target` keys | `TryAcquire`, `Release` | held exactly while a call works |
| Parameters and config loading (`nodeserver.go`, `utils.go`) | the maps of one request, the sections | merge, normalise, generate, load | complete sections, no parameter lost, whatever the map order |
| Metrics collector (`metrics_collector.go`) | reads `mountContext` | `Collect` | no map race, one snapshot per scrape, no deadlock |
| Mount and VFS options (`nodeserver.go`) | rclone's process-wide cache and temporary directories, running VFSs | merge of flags, group and parameters; `setRcloneConfigFlags`; `Mount` | the options the request asks for; a cache where somebody asked for it |
| Volume statistics (`nodeserver.go`, `metrics_collector.go`) | reads mounts and VFS statistics | `NodeGetVolumeStats`, aggregation of a scrape | what is said of a mount is true of it |
| Controller service (`controllerserver.go`) | none of its own; its answers are kept as PersistentVolumes | `CreateVolume`, `DeleteVolume`, `ValidateVolumeCapabilities` | one ID per volume, the class's path with the claim's metadata |
| Driver, identity service, gRPC server, main, metrics and rc HTTP servers | goroutines, `WaitGroup`, socket file | `main`, `Run`, `Start`, `Wait`, `serve`, `Probe` | ready means ready; comes up after any kill |

The calls come from the kubelet, each in a goroutine of its own; Prometheus
scrapes come in on others. They meet in four places: the operation locks, `mu`,
`configMu` and the rclone config. Hard to test are the interleavings of calls on
the same or on different targets, failures in the middle of a handler (every
call into rclone, the kernel or the mounter can fail), repeated calls, the
restart of the process while mounts exist, the bounded wait for uploads, the
random order of Go's map loops, the recursive read lock of a scrape, settings
that look like a mount's own and belong to the process, and names that two parts
of the system compare differently.
`PROJECT.json` lists these hazards by line, with the properties about them.

## Modules

**`NodeServer`** is the core: the two handlers, step by step. A call `c` has a
program counter `pc[c]`, its locals (`found`, `todo`, `mc`, `retry`), whether it
has opened its file system (`opened`) and a `result`. A step ends where another goroutine can see or change something:
at the operation lock, at each section of the config, around `configMu`, at
`NewFs`, `Mount`, `WaitMountReady`, at the map of contexts, at each poll, at the
two unmounts. `Return` moves to `"release"`, where the deferred `Release` runs.
A publish that fails after its sections are loaded first goes to `"cleanup"`,
the deferred `cleanupConfigRemotes`. A mount, its VFS and its context are named
by the publish call that made them: `live` holds those whose VFS runs, `dirty`
those with uploads pending, `serving` those whose FUSE connection the process
serves, and `layers[t]` is the stack of kernel mounts at a target. `config` is
the set of sections in rclone's config, which belong to the process: volumes may
name them alike. A mount that fails may leave its VFS in `live`, as `vfs.New`
comes before the mount. `Crash` ends the process: everything in memory is lost,
calls in flight get no answer, kernel mounts stay unserved.

**`ConfigLoad`** follows the parameters of one publish from the secret and the
volume context to the sections: `Source` is the merge, `CopyParam` one round of
the normalising loop, `GenerateConfigData` the INI text given or made from the
parameters, `SetValue` one round of the loading loops with `UpdateRemote` at the
key `type`. A value is the parameter it comes from and whether it is obscured.
What the string functions compute is given by the constants `NormalOf`
(`normalizeRcloneFlag`) and `OptionOf` (prefix test and `sanitizeFlag`).

**`MetricsCollector`** runs scrapes against the accesses of the handlers to the
map of contexts, with **`RWMutex`** (external: `sync.RWMutex`) for `mu`: a
writer announces itself, after which new read locks wait.

**`VolumeService`** is the abstract specification of the node service: what the
container orchestrator may rely on. A target shows nothing, the volume of a
publish, or something broken; one call at a time works on it; OK is answered only
when it is true; a volume goes down only through an unpublish or a restart.
**`NodeServerRefinement`** maps `NodeServer` to it: a call works from `TryAcquire`
to `Release`, and a target shows the mount on top of it as long as its VFS runs.

**`MountOptions`** follows the options of a publish: `MountFlags`, `GroupParams`,
`Copies` and `mergeCopy` build the map `opts`, `SetCacheDir` and `SetTempDir` are
the process-wide assignments of `setRcloneConfigFlags`, `ExtractOptions` is where
values and mount types are refused, `NewVFS` and `MountFn` are the two halves of
`mountPoint.Mount`. Normalisation of names is the constant `Normalize`, a value
is a member of a small set with one that does not parse.

**`Plugin`** is the process: `main`, `NewDriver`, `Run`, the goroutine of `serve`
and the one that stops a test server, over a socket file that outlives them.
`conf.test` chooses between `main` and a test that calls `Run(true)`.

**`Provisioning`** goes from a claim through `CreateVolume` and the kept volume
context to the path the node mounts. A text is a sequence of tokens, so that a
template variable can be replaced and two texts can join to the same one.

**`VolumeStats`** sets `NodeGetVolumeStats` (two looks at the path, in two steps)
and a scrape (a step for each mount in each of its two passes) against mounts
that pass the stages of `NodeServer`, whose remotes fail and recover and whose
statistics change. `scrape.seen` and `scrape.states` are histories: what each
mount had and was between the start of the pass and the scrape's look at it.

**`MCNodeServer`, `MCNodeServerRefinement`, `MCConfigLoad`, `MCMetricsCollector`,
`MCMountOptions`, `MCPlugin`, `MCProvisioning`, `MCVolumeStats`** give the
constants values. **`NodeServerProofs`** and its extension
**`NodeServerRefinementProofs`** hold the theorems about `NodeServer`;
**`PluginProofs`**, **`MetricsCollectorProofs`**, **`ConfigLoadProofs`**,
**`MountOptionsProofs`**, **`ProvisioningProofs`** and **`VolumeStatsProofs`**
hold those about the module of that name.

`NodeServer` treats loading a section as one step, since `configMu` keeps other
loads out and `NewFs` is called after the load; `ConfigLoad` opens that step.
`NodeServer` treats an access to the map as atomic, which `NoMapRace` of
`MetricsCollector` justifies; `VolumeStats` lets no context come or go during a
scrape for the same reason (`SameSnapshot`), and leaves everything else free to
change. `MountOptions` opens the step `Mount` of
`NodeServer` into the VFS and the mount, and leaves locks and sections out.

Definitions whose comment begins with "Mutation" are plausible mistakes in the
definition below them; none is part of a specification. Each property is
violated when the definition is replaced by one of them.

## Runs

| Run | Instance | Checks |
|---|---|---|
| `node` | 3 calls, 2 targets, a volume with nested remotes and one without that share a section name; `UpdateRemote` may fail | `TypeOK`, `LockOwned`, `NoNilDaemon`, `LiveMountTracked`, `SectionTracked`, `AnswerIsTrue`, `OnlyUnpublishStops`, `ImplementsService` |
| `node_progress` | 2 calls on the same volumes, fairness | `Answered` |
| `config_load` | 5 parameter names, two of which normalise alike, and the reserved names, in secret, attributes or both; crypt over s3; configData that sets a password the parameters set too | `TypeOK`, `SectionComplete`, `OwnTypeParams`, `ParamsApplied` |
| `metrics` | 2 scrapes, 2 handlers, 2 targets | `TypeOK`, `NoMapRace`, `SameSnapshot` |
| `options` | 2 publishes: any (contradicting flags, group, read-only, spellings, bad values, directories) beside one that sets a cache directory, fails to or sets none | `TypeOK`, `OptionsAsAsked`, `CacheDirNamed` |
| `plugin` | all command lines (servers off, on, refused; endpoint; name; environment) and test mode, 2 restarts, fairness | `TypeOK`, `ReadyIsTrue`, `ComesUp` |
| `provisioning` | 9 claims, 3 in a behaviour, in classes with a nested, a flat and a volume template and one that leaves all to the secret; 2 calls of `CreateVolume` each | `TypeOK`, `OwnDirectory`, `OneIDEach`, `MountsTheClaim` |
| `stats` | 3 targets, of two inline volumes of one name and a PersistentVolume, at most 2 in use at a time, 1 call or 1 scrape at a time | `TypeOK`, `SteadyIsTold`, `ScrapeIsTrue` |

Three calls are enough for the interesting sequences: publish, publish again or
publish elsewhere, unpublish; a failed unpublish, its repetition and a publish;
with crashes in between. The bound on calls is the only bound on the length of a
behaviour. `MaxRetries` is 1 where only the two exits of the loop matter and 5,
the code's value, in `node_uploads`. Calls are interchangeable, so the safety
runs use symmetry; the liveness runs do not. Deadlock is not checked, since all
behaviours end when the calls are done; `Answered` and `ScrapeCompletes` say
what must not get stuck, and so does `ComesUp`.

Two restarts let a kill fall into a start that itself follows a kill, with the
socket left over from either. The claims have names that join alike, one name in
two namespaces, and a claim made again after its deletion; `FewClaims` stops a
behaviour at `MaxClaims` claims, and the properties relate two. Two mounts at a
time, with one label or with two, and one statistic other than zero are enough for
a sum that differs from its parts and for a series that mixes looks. `Apart` cuts
the states in which a call and a scrape are both under way: neither writes what
the other reads. `MCInit` of `MCMountOptions` takes one of the two publishes from
the few requests that matter to the other: publishes meet only in the directories
of the process. Requests with a group and one of its parameters in another
spelling (`--gid`) are left out there, see below.

Fairness is weak fairness of each call that has its operation lock: a goroutine
that can go on is scheduled, and calls into rclone, the kernel and the mounter
return. Nothing is assumed of the CO, the applications or the uploads. `configMu`
is taken by a call only in single steps or released by the same call, so weak
fairness is enough on the finite instance. In `MetricsCollector` handlers get
strong fairness, as `sync.RWMutex` starves no one. In `Plugin` the main goroutine
and that of `serve` are scheduled, and the container is started again as long as
`MaxRestarts` allows; kills are not fair, and end at that bound.

### What the code does not do

Four runs are expected to fail: TLC finds a behaviour of the code that
contradicts the repository's own documents or comments.

- `node_republish`: a repeated publish of a mounted target returns Internal, and
  its clean-up deletes the running mount's sections (nodeserver.go:296, 861).
- `node_dead_mount`: after a restart the recovery of a dead mount is not reached
  (nodeserver.go:291, 312). An unpublish does clean it up (`AnswerIsTrue`).
- `node_uploads`: the wait for uploads gives up (nodeserver.go:556, 611).
- `metrics_scrape`: the read lock taken twice deadlocks with a waiting writer
  (metrics_collector.go:310, 448, nodeserver.go:87).

Other things the code does are in the models, and the properties are stated so
that they hold of it: they say what cannot happen beyond it.

- Sections belong to the process, though docs/csi-dev.md:225 speaks of temporary
  remotes for each mount. Between the load and `fs.NewFs` another call may delete
  or overwrite a section of the same name, and two pods with one volume on one node
  share all of them (nodeserver.go:414, 456, 785). `NewFs` fails then, or opens
  what another volume wrote. `SectionTracked` says that the shared deletions leave
  no section behind.
- When `UpdateRemote` fails, the sections written so far stay, as the deferred
  clean-up ("Ensure cleanup on failure", nodeserver.go:885) is not registered yet.
  `SectionTracked` says that nothing else leaves a section to nobody.
- A mount that fails leaves its VFS running with nobody to shut it down
  (nodeserver.go:494). `LiveMountTracked` and `AnswerIsTrue` except those, and
  only those.
- configData that sets what a parameter sets, names that normalise alike, and a
  password given with `remoteType`: the order of a Go map decides, against
  docs/driver-parameters.md:98-101 when configData or the other name comes from
  the secret, and the password may stay in clear. `ParamsApplied` lists these
  outcomes and excludes all others.
- `cache_dir` is set for the process (nodeserver.go:150, against 226 and 433): a
  VFS may cache where another publish said. `CacheDirNamed` says that a volume that
  names a directory never ends in one that nobody named.
- The flat and static templates of
  deploy/example/template-variable-examples.yaml:49, 102 give claims one path
  (team-a/db and team/a-db). `OwnDirectory` is about the templates that keep claims
  apart, `KeepsApart`; with `/` between the variables they do, since names hold no
  `/`.
- The controller matches names in any case (controllerserver.go:83), the node does
  not (nodeserver.go:250): a class that spells `Remote` gets volumes the node
  refuses. Properties of mounted paths except `Refused`.
- The path of an inline volume holds its name in the pod, not its ID
  (metrics_collector.go:524), and deploy/base/csi-rclone-driverinfo.yaml:10 enables
  them: volumes of one name share a series, under the remote of either.
  `ScrapeIsTrue` says that their mounts are all in it, each once.

Two things that the code allows are left out of properties. With `AllowNonEmpty` a
repeated publish stacks a mount and overwrites the context of the first, and
`LiveMountTracked`, `AnswerIsTrue` and `ImplementsService` fail; the option is off
by default and in the runs. With a group and a parameter of one of its names in
another spelling (`--gid`), both normalise to `gid`, the order of a Go map
decides (nodeserver.go:846, 265), and `OptionsAsAsked` fails.

The models show more. A path that is unmounted and not yet removed
is a healthy mount, since `isMountHealthy` only reads the directory
(nodeserver.go:951). `Wait` returns before the server serves in test mode and
never otherwise, so the deferred shutdowns of `main` are not reached
(server.go:34, 63, 115); and `UNIX://` passes `ParseEndpoint` and its test
(utils_test.go:145), after which `Listen` ends the process.

## Proofs

Every theorem holds for all constants that satisfy the named assumptions of its
module, so for any number of calls, targets, volumes, claims, parameters or
restarts. The assumptions give the constants their kinds (a request has flags, a
target path has parts, `None` is no value) and what Kubernetes guarantees of
names (`ClaimsAssumption`: names hold no `/`, volume names are unique); TLC
evaluates them on each run. Where the code needs more to be right, the theorem
has a hypothesis of its own, and the text above says what happens without it.

Each argument is initiation, one preservation step per action, and a temporal
step.

### Node service

`NodeServerProofs`:

- `TypeCorrect`: `Spec => []TypeOK`.
- `LockSafety`: `Spec => [](LockOwned /\ NoNilDaemon)`, and `NeverNilDaemon` for
  the second part alone. The inductive invariant `LockInv` adds `ReadyMounted`: a
  call between `Mount` and `WaitMountReady` has its target mounted. Only a call
  on the same target could unmount it, and `LockOwned` excludes that call.
- `Tracking`: without `AllowNonEmpty`, `Spec => []LiveMountTracked`. `TrackInv`
  is about `Running`, the live mounts whose publish has not failed. It adds that a
  context names a mount of its target, that a running mount is on top of its
  target, that the context a call looked up is still the stored one, and that
  after `UnmountMountPoint` the target has no running mount. These carry the
  invariant through failed unmounts and their repetition.
- `NoStraySection`: `Spec => []SectionTracked`, for any volumes, with sections in
  common or not. `SectionInv` adds to `LockInv` that a load works on its own
  sections (`OwnTodo`) and that a publish that failed early has opened nothing
  (`EarlyPublish`). An unpublish that deletes the sections of its target, and a
  clean-up, delete all that this target was to keep, so no keeper is lost alone.

`NodeServerRefinementProofs`, without `AllowNonEmpty`:

- `Answers`: `Spec => []AnswerIsTrue`. `AnswerInv` adds to `TrackInv` that a
  target has at most one mount, made by a publish of it (`LayerAtTarget`), on a
  directory that exists (`MountedExists`); that a running mount is served
  (`LiveServed`) and a left one is mounted nowhere (`LeftIsOff`); that the steps of a handler belong to its operation
  (`OpOfStep`); and that nothing is left at the target once an unpublish comes to
  forget its context (`ForgetClean`).
- `Stops`: `Spec => OnlyUnpublishStops`, from the same invariant.
- `Implements`: `Spec => ImplementsService`, from the same invariant; each action
  of `NodeServer` is one step of `VolumeService` or a stutter.

### Plugin

`PluginTyped` (`TypeOK`) and `ReadyMeansReady` (`ReadyIsTrue`), for all command
lines and any number of restarts. The invariant `Ordered` says what each goroutine
has done when the next may go on: nothing runs before `Start`, the driver is
complete at `Start`, and all services are registered before `wg` reaches zero
again.

### Metrics collector

- `CollectorTyped` (`TypeOK`) and `NoConcurrentMapWrite` (`NoMapRace`).
  `MutexInv` ties the mutex to the program counters: the read locks counted for a
  goroutine are those its position implies, two in the middle of `isMountHealthy`
  (`ReadersCounted`), and a goroutine that writes is the one `writer`
  (`WritersKnown`).
- `OneSnapshot` (`SameSnapshot`): the set a scrape goes over stays the stored one
  as long as it has a read lock, by `WriterAlone`; `SnapshotInv` says how far
  either pass has come.

### Config loading

`ConfigInv` says that a parameter kept under a normalised name is one of the
request (`ParamsFrom`) and none was skipped (`NoneSkipped`), that the sections are
the request's (`ParsedFrom`), and that a value in the config comes from configData
or from a parameter of the section's type, and is there once its key is no longer
left to do (`LoadedFrom`, `LeftKeys`). From it, for any order of the two loops:

- `ConfigTyped` (`TypeOK`), `SectionsComplete` (`SectionComplete`),
  `PrefixDecides` (`OwnTypeParams`) and `ParametersApplied` (`ParamsApplied`), all
  without a hypothesis.

### Mount options

- `OptionsTyped` (`TypeOK`).
- `OptionsFollowRequest` (`OptionsAsAsked`), if requests with a group spell its
  parameters as the driver does (`GroupSpelled`). `OptionsInv` says that the
  options of a publish are those of its request for some order of its parameters
  (`OptsFrom`) and that a VFS runs with the options of its publish (`VfsFrom`);
  the lemma `AsAsked` then compares `mergeCopy` and its sources with what the
  request asks for.
- `CacheNeverDefault` (`CacheDirNamed`), without a hypothesis. `DirInv` says that
  the directory of the process is one that a publish has named as long as a
  publish that names one is between `SetCacheDir` and `NewVFS`: a restart resets
  it, and loses those publishes.

### Provisioning

`ClaimInv` says that every answer is one `CreateVolume` gives for its claim
(`AnswersFrom`), that what is mounted comes from the kept volume
(`PublishedFrom`), and that claims that exist together differ in namespace or name
(`NamesApart`).

- `ProvisioningTyped` (`TypeOK`).
- `OneID` (`OneIDEach`), for classes that give one remote or none (`OneRemote`).
  The ID ends in the volume's name after its last mark, and names hold no mark.
- `MountedAsClaimed` (`MountsTheClaim`), for classes that spell remote and path
  once (`SpelledOnce`).
- `DirectoriesApart` (`OwnDirectory`), without a hypothesis: the templates it is
  about are part of the property, and classes of other kinds may exist beside.

### Volume statistics

`StatsInv` says what a call of `NodeGetVolumeStats` has seen and answered
(`CallTells`) and how far a scrape is (`ScrapeOK`). In the first pass the series
add up the mounts it has been at, each under its label with one statistic it had
(`Covers`), and the statistics of a mount still to come are among those recorded
of it; in the second pass the same is so of the states (`Tells`). A change under
the scrape only adds to what is recorded.

- `StatsTyped` (`TypeOK`), `SteadyMountIsTold` (`SteadyIsTold`) and
  `ScrapesAreTrue` (`ScrapeIsTrue`), for any targets and paths.
- The lemma `SumOfOneMore` is what a step of the first pass needs: `MapThenSumSet`
  picks its elements in an order of its own, so the sum over one more mount is
  first shown not to depend on it (`SumRemove`, `SumAgrees`).

### Induction over data

`FlattenSeq`, `MapThenSumSet` and `Max` are given by recursion or by a choice. The
library's induction theorems cannot be instantiated with the provers at hand, so
the lemmas about these operators (`Flattened`, `SumRemove`, `LargestNumber`)
take a least counterexample instead, from the well-foundedness of `<` on `Nat`
(`WFMin`), and refute it.

### Model-checked only

`Answered`, `ScrapeCompletes` and `ComesUp`, since liveness is out of the prover's
reach, and the four properties whose runs are expected to fail. Every other
property that a run checks is a theorem.

## Not modelled

The daemon mode of rclone's mount. The values of options beyond valid and
refused. Of the metrics: `collectRemoteStats`, which copies rclone's own totals,
the descriptor tables, the labels that describe a mount, and the arithmetic of
`NodeGetVolumeStats` on what statfs returns. Failures of `net.Listen` for an
address in use. Methods that answer a constant or Unimplemented. Logging,
version, backend imports and the test mounter keep no state. Vendored code
appears only as far as the driver uses it. A `ReadDir` that hangs
(nodeserver.go:952) holds the read lock as long as it hangs; a property would
only restate that.

## Plan

1. `LiveMountTracked` and `AnswerIsTrue` with `AllowNonEmpty`, with the stacked
   mounts that no context names stated as what they are.
2. Lemmas of the refinement that make `VolumeService` usable by itself: what a
   client that only sees answers can conclude.
