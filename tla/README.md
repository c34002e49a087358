# stormcos-builder in TLA+

Models, model-checking runs and proofs for `stormcos-builder`, the service of this
repository that builds boot images and hands out clusters. The source is
`src/crates/stormcos-builder/src/`; file names below are relative to it.

Check one run with `tlc -workers 2 -config BuildJobsPrune.cfg MCBuildJobs`, the proofs of
one module with `tlapm BuildJobsProofs.tla`. `PROJECT.json` lists the runs, the mutants
(plausible bugs each property must catch), the lines every definition stands for, the
hazards and the theorems.

## 1. Inventory

One process: an axum server and tokio tasks over one shared `App`. All persistent data is
one JSON file (`State`) and the `images/` and `logs/` directories. Handlers answer at once
and spawn a task for anything long; nothing queues, joins, cancels or serialises the tasks.

| Part | State it keeps | Operations | What makes it correct |
|---|---|---|---|
| **State store** (`main.rs` `App`, `model.rs` `State`) | the `State` behind an `RwLock`; `state.json` | `read`, `mutate` (change, then save), `load` | a mutation is atomic to readers and all-or-nothing on disk; a restart brings back what was saved |
| **Build jobs** (`jobs.rs` `build`, `sweep_intermediates`, `prune_old_releases`) | `builds`, `releases`, files in `images/` | record the build, run the pipeline, register or fail, QA, sweep, prune | never lose one of the newest `keep_releases` releases; leave no excess release and no scratch behind; never disturb a running build; every build ends |
| **Cluster jobs** (`jobs.rs` `provision`, `rebuild`, `delete`; `api.rs`) | `clusters` | request, phase changes, script, record | a transient phase always has a job that will end it; a deleted name stays deleted |
| **QA gate** (`jobs.rs` `run_qa`, `run_cluster_qa`, `record_qa`) | `Release.tombstoned`, `Release.qa`, report files | image-scope and cluster-scope passes | tombstones are for releases that failed, never go away, and stop provisioning |
| **Watcher and notes** (`jobs.rs` `watcher`, `main.rs` `compute_release_notes`) | `last_seen` | poll heads, record, spawn builds; notes since `last_seen` | each change reaches a release of each flavor that has the asset, and its notes |
| **Pipeline** (`pipeline.rs` `build`) | files in `images/` | compose, initramfs, boot image, qcow2, zstd | what is advertised exists; what exists is advertised or removed |
| **Harvest** (`pipeline.rs` `refresh_inputs`) | build inputs, a temporary directory | download, unpack, replace inputs | a build composes consistent inputs |
| **Flavors** (`config.rs`) | configuration | `flavor_asset_names` | the closure of `extends`, base first, no duplicates, ends on cycles |
| **Globs** (`github.rs` `glob_match`) | none | match an asset name | `*` is any substring |
| **GitHub client** (`github.rs`) | none | heads, commits, releases, issues | I/O |
| **Build VM driver** (`buildvm_build.rs`) | none | build in an ephemeral VM, fetch the manifest | what the manifest names has to come back too |
| **REST read side, download, web UI** (`api.rs`, `web.rs`) | none | list, get, stream | reads only |
| **Reconcile** (`reconcile.rs`) | none | manifest, identity, comparison; called by nothing yet | it builds exactly when recipe, repositories or tags differ |
| **Scripts, deployment** | machines | provision, rebuild, delete | external; two of them are skeletons |

Interactions. The watcher and the API spawn build jobs; API requests spawn cluster jobs;
build jobs, cluster jobs and QA share the state store, and prune takes away releases that
cluster jobs use; build jobs share `images/` with each other's sweep and prune; all jobs of
one cluster name share one log file, and all cluster QA passes of one release share one
report file; builds of one process share the inputs they harvest and the directory they
harvest through; the watcher and every build write `last_seen`. A restart reloads the state and resumes nothing.

Hard behaviours. Sweep and prune act on snapshots read several awaits earlier. A job may be
overtaken, at any await, by any number of jobs on the same flavor, release or name. Files
and records change in separate steps, so a crash or an I/O error leaves one without the
other. `created` has a resolution of one second. The complete list, each with its line and
with the property that watches it, is `hazards` in `PROJECT.json`.

## 2. Modules

| Module | Models | Checked by |
|---|---|---|
| `DurableState` | the promise of the state store: atomic commits, durable unless the save failed | refinement target |
| `StateFile` | `App::read`/`mutate`, `State::save`/`load` step by step | run `state_file`, theorems in `StateFileProofs` |
| `Retention` | the promise of `keep_releases`: only what is older than the newest is ever withdrawn | refinement target |
| `BuildJobs` | all of `build`, `sweep_intermediates`, `prune_intermediates`, `prune_old_releases` | runs `build_jobs_*` (`MCBuildJobs`), theorems in `BuildJobsProofs` |
| `ClusterJobs` | cluster requests, `provision`, `rebuild`, `delete`, the QA gate | run `cluster_jobs` (`MCClusterJobs`), theorems in `ClusterJobsProofs` |
| `Watcher` | `watcher`, `compute_release_notes`, what `build` does to `last_seen` | runs `watcher*` (`MCWatcher`), theorems in `WatcherProofs` |
| `Harvest` | `refresh_inputs` over the shared inputs and directory | through `Pipeline` |
| `Pipeline` | `pipeline::build` from the inputs to the artifacts of a release, and their pruning; extends `Harvest` | runs `pipeline*` (`MCPipeline`), theorems in `PipelineProofs` |
| `Flavors`, `Globs`, `Reconcile` | `flavor_asset_names`, `glob_match`, `Manifest` with reference definitions of the first two | run `lookups` |
| `Lookups` | a state machine that makes every input of these three, bounded for TLC | run `lookups` (`MCLookups`), theorems in `LookupsProofs` and `GlobsProofs` |
| `Induction` | no code: the lemmas on maxima, folds and recursive functions these two rest on | its own proofs |

**Step size.** One action is what the code does between two points where another task can
run: an `App::read`, an `App::mutate`, an external command, one directory entry, the
truncation or the reading of a file. The runtime is multi-threaded, so synchronous file
operations in a loop interleave with other tasks as well; sweep and prune visit their
entries one by one.

**State store.** `BuildJobs` and `ClusterJobs` treat `App::mutate` as one atomic step whose
effect survives a crash. `StateFile` is where that is justified: the lock is held from the
change to the rename, the file is written under another name and renamed, and a half-written
file is never what `load` sees. A mutation is a token and the state is the set of tokens
applied, which is enough to tell lost, premature and torn writes apart. `DurableState` also
says where the promise ends: a failed save is only logged, so a reader may see what a restart
forgets (`CommitUnsaved`), and an unreadable file is taken for an empty state
(`StartEmpty`). `BuildJobs` and `ClusterJobs` assume neither of the two happens.

**BuildJobs.** A build task goes through the labels of `pc`:

    idle -Start-> started -Compose-> composing -Assemble-> built -RecordSuccess-> qa -ReadRunning->
    sweepKeep -ReadAdvertised-> sweepOpen -OpenImages-> sweeping -EndSweep-> prune
    -ReadDoomed-> prunePaths -ReadPaths-> pruning -PruneRecords-> done

with `PipelineFails` and `RecordFailure` on the failing side, `CannotOpenImages` where
`read_dir` fails and `NothingToPrune` where prune returns early. The locals `running`,
`keep` and `doomed` of the Rust functions are the variables `running`, `advertised` and
`doomed`; `todo` is the rest of a directory scan or of the list of paths. The position of a
release in the vector `State.releases` is its push number (`position`): records are only
appended and removed, so relative order never changes, and that order decides ties of the
stable sort. `Scratch(b)` stands for all intermediates of a build (they are treated alike),
`Image(b)` for all artifacts its release advertises (likewise).

Abstractions: the clock moves in whole seconds and not backwards. Build ids are unique (a
random part). The pipeline is the in-process one or the script, whose artifacts are in
`images/`; in a build VM setup they are not, which is not modelled.
`PrefixFlavors` are the flavors for which a *file name* of an image starts with an
intermediate prefix (a flavor called `edition` or `vol`); the sweep then takes the rest of
the name for a build id, which is never that of a running build. A flavor called `meta` is
not modelled: its `initramfs-meta-...` matches the prefix `initramfs-meta-` before
`initramfs-`, and is swept even while its build runs. Log files, notes and the QA
verdict are left out, since neither sweep nor prune reads them; the QA run itself is the
time a task may spend at `qa`.

**ClusterJobs.** A task is one accepted request. It goes `idle, asked, (mark,) launch,
script, acted, ok | failed`, a provision then `settle` and, if it found an address, `gate, qa,
report, fold`. `SetPhase` is `cluster_mut` with its `if let Some`. `provision` removes a
record of the name and pushes a new one in one `mutate`, so records are a function of the
name. `log` says whether the log of a name has a usable `IP=` line: every job of the name
truncates that one file, and `ip_from_log` reads it after the script ended. `report` is
keyed by release, as the file name is. `faulty` is a history variable: the releases a
runner really saw fail a blocking test.

The scripts and the QA runner are external and modelled by their contract, at their best:
they do what they were asked or fail; the runner's verdict is about the release the machine
runs; child processes do not outlive the service. A finding therefore never depends on a
script misbehaving. Left out of a cluster record: address, message, DNS name, boot method,
creation time. The choice of a release by `create_cluster` (given, or latest of the flavor)
is any release that is recorded and not tombstoned, which includes every answer the code can
give. Build jobs appear only as `Register`, `ImageQa` and `Prune`; a prune may take any
release at any time here, a superset of what `BuildJobs` allows.

**Retention.** What can be had is the releases with record and image (`Offered`). The promise
has two steps: a new release comes on offer, or any number of releases that are older than
the newest `Keep` *at that moment* are withdrawn. `BuildJobs` acts on snapshots, deletes
image and record in different steps and may die between them, and still implements it.

**Watcher.** A head is the number of commits on a branch, a sha the number of its commit.
The watcher's round is `asleep -Wake-> polling -Poll-> comparing -Compare-> recording
-Record-> polling ... -EndRound-> spawning -Spawn, EndSpawn-> asleep`; reading a head, comparing
it with `last_seen` and recording it are three awaits, so a build may end between any two. A
build reads the heads (`ReadHead`), then its notes (`ReadNotes`), works, and writes
`last_seen` when it ends (`Register`) or not at all (`BuildFails`). A component or flavor is
gone through in any order, which covers every order of the configuration. One counter,
`events`, bounds builds by hand, failures and restarts. Two histories serve the properties
only: `dropped`, the flavors whose build came to nothing because a poll, a build or the
service failed, and `preempted`, those whose change another flavor's build recorded before
the watcher had seen it.

**Harvest and Pipeline.** A version of a component is the number of its release, 0 what was
staged by hand. Mounting, copying out of and unmounting the image-store touch the build's
directory only and are one step, which may fail or copy some of the images (`CannotSeed`). A copy over a shared file has two steps with `Torn` between them, as
`fs::copy` truncates before it fills. A build goes `idle -BeginHarvest-> seed -> harvest
(-> found -> got -> copy ... ) -> pack -> storing -> clean -> edition -> volume -> boot -> qcow2 ->
raw.zst -> drop -> measure -> done`. `Abort` is a `?` of `refresh_inputs`: `build` logs it
and composes what there is. Skips, aborts and failed conversions that the state does not
force count as mishaps. Histories: `asked` and `missed` (the latest releases when a build
began; what its log says it went without), `met` (the builds that were at the shared inputs
together with another), `spoilt` (builds were, the store could not be seeded, a copy over it
was cut short), `flawed` and `halfPruned` (whose step or prune failed). The
working directories and the choice of what to prune are `BuildJobs`'; here any release but
the last may be pruned. The commands (skopeo, rpm2cpio, mkfs.erofs, qemu-img, zstd) are
modelled by what they read and write, and may fail.

**Lookups.** Configurations, patterns and names, and harvests are built up entry by entry;
the invariants compare each operator with its reference in every state. The three parts
are explored apart, since nothing connects them. In `Globs` and `Reconcile`, whose
algorithms are about characters, names and tags are sequences of them; a flavor or asset is
an atom. An identity is the string the code makes: the recipe's `repo=tag` and those of the
components in the order of their repositories, a `;` between them, nothing escaped. GitHub
has neither `=` nor `;` in a repository's name (`RepoAssumption`), git allows both in a tag.
So a `=` in a tag does no harm, and a `;` does: `a` at `v;b=v` and `a` at `v` with `b` at `v`
are one identity. `BuildsOnChange` is about all tags in the direction that nothing is built
twice, and about those without a `;` in the direction that each change is built;
`MCLookups!Collision` is the counterexample among the others.

## 3. Runs

All runs use `CHECK_DEADLOCK FALSE`: the bounded instance ends when every build or request
was handled, which in the real service is simply waiting for the next one.

| Run | Question and answer | Bounds |
|---|---|---|
| `build_jobs_prune` | Do overlapping sweeps and prunes of one flavor, over several seconds, keep the promise of `keep_releases`, and is every excess or half-removed release some prune's job? Yes (`NewestKept`, `IsRetention`, `ExcessOwned`, `MissingOwned`). | 3 builds, keep 1, clock 1 |
| `build_jobs_flavors` | Do flavors evict each other, or do failing removals do harm? No. | 3 builds in 2 flavors, `IoErrors` |
| `build_jobs_fair` | Does a crash cost the newest release its record? No. Does every build end, every excess record go, all scratch of finished builds get swept? Yes, unless the service dies. | 2 builds of a flavor in `PrefixFlavors`, keep 1, clock 1, 1 crash |
| `state_file` | Does the save protocol implement `DurableState`, and does no save lose what an earlier one stored? Yes. | 4 mutations, failing saves, unreadable files, 2 crashes |
| `cluster_jobs` | Do overlapping jobs of one name leave a phase nobody ends, resurrect a deleted record, clear a tombstone, or give one that no failed test deserves? No, the last unless the name is provisioned twice. | 2 requests for 1 name, which has a cluster or none, 2 releases, failing scripts, 1 crash |
| `watcher` | Does every recorded change reach each flavor that has the asset, and does building stop? Yes, but for a failure and for a change another flavor's build recorded first. | 2 builds at once, 2 flavors sharing one of 2 components, which moves once; 1 build by hand, failure or restart |
| `pipeline` | Do staged images survive, are the latest releases composed, is what is advertised whole, and what is on disk accounted for? Yes: the first unless harvests meet or the store cannot be read or written, the second in each build that shares the inputs with no other, the last unless a step fails. | 2 builds; an agent with 2 binaries, an image, a kept image, each released once; 2 mishaps |
| `lookups` | Do flavor resolution, globbing and the reconciler's decision agree with their references? Yes. | 3 flavor names in up to 3 tables, 3 asset lists; patterns and names of up to 5 characters over 2 letters; 3 repositories, 3 tags of which two hold separators |
| `build_jobs_workdir` | finding 1 | 2 builds |
| `watcher_notes` | finding 2 | as `watcher`, no event |
| `pipeline_store` | finding 3 | as `pipeline`, no mishap |
| `pipeline_raw` | finding 4 | as `pipeline`, no mishap |

Why the bounds are enough. The features of `BuildJobs` (clock, crash, I/O errors, prefix
flavor) are spread over three runs, since all of them with three builds would not end in
minutes. With `Keep = 1`, three builds of one flavor already give two excess releases, three
prunes that hold different snapshots at once, and a build that is overtaken by two others;
one tick gives both ties and different seconds in every order. For clusters, the instance
starts with a name that has been provisioned and tested, or with none, so that the two
requests are every pair of jobs that may overlap on one name: two provisions as well as two
rebuilds, or a rebuild and a delete; two releases let a verdict meet the wrong one. For the watcher, a shared and an unshared component, with two
builds at once, give builds of overlapping rounds that write old shas back and builds that
record a change for another flavor; a single failure, restart or build by hand can lose a
change, in each of the ways the exceptions name. In the pipeline, two
builds are what it takes to share anything; one release after the staged one makes every
harvest write over something; two mishaps let a failure meet a restart. Two binaries of one agent let
a build see one of them old and one new. The theorems of section 5 carry every
safety property these runs check to any number of everything, to inputs of any size and to
any combination of the features; the bounds then only matter for liveness.

Each bound has a name: `MaxClock`, `MaxCrashes`, `MaxHead`, `MaxEvents`, `MaxVersion`,
`MaxMishaps`, `MaxTables`, `MaxPattern`, `MaxText`; the sets `Builds`, `Tasks`, `Mutations`
bound the number of requests. Symmetry is used only in runs without liveness properties,
over builds of one flavor or over builds and binaries.

**What holds, and why it is not obvious.**

- `NewestKept`, `IsRetention`: prune deletes what a snapshot said was excess, possibly long
  after. That is safe only because no later registration can bring an excess release back
  among the newest, and that in turn depends on the order being that of `created` with ties
  going to the *earlier* push.
- `ExcessOwned`, `MissingOwned`: an excess release is always on the list of, or still to be found
  by, the latest build of the flavor; a record without its image is about to go.
- `TransientOwned`: although jobs of one name overwrite each other's phase, whoever set the
  current one is still at work. `TombstoneDeserved`: although the verdict is folded into
  whatever release the name has by then, a rebuild or delete cannot change which that is. It
  excepts a second provision of the name, which can, and says nothing of a tombstone that is
  never given: those two cases are listed below the findings.
- `ChangeOwned`: what `last_seen` holds is what the watcher will never build again, and it is
  written before, during and after the builds, with older values too. Each value is
  nevertheless in a release or on its way to one, but for the two exceptions. `Settles`: a late build that
  writes old shas back starts another round, and the rounds end all the same.
- `LatestComposed`: through skips, aborts, restarts, and whatever builds that met, failed or
  died left in the layers and the store, a build that has the inputs to itself composes whole
  binaries and images of the latest releases, or says what it went without. `KeptSurvive` is
  weaker: once harvests met, a store could not be seeded or a copy over it was cut short,
  what was staged by hand may be gone (finding 3), so it speaks of skips, aborts and restarts
  up to there.
- `AdvertisedWhole`: no failed conversion or dropped raw image leaves a release with half an
  artifact. `Accounted`: what no release names comes of a failed step, which does leave files
  for good; a death in a prune, overlapping prunes and builds do not.

**Fairness.** `FairSpec` asks weak fairness of each spawned task's steps and of the watcher's: the
tokio runtime keeps polling them, timers fire, the `RwLock` is fair to waiters, and requests
to GitHub and external commands are assumed to end (the code has no timeout on commands, so a
command that hangs hangs its job; this is the assumption under which the code can work at
all). Nothing is asked of requests, commits, the clock, crashes, or of success. `Pipeline` states
no liveness: that every build ends is `BuildFinishes`.

**Crashes.** A task that a restart killed is gone for good, since nothing resumes it. The
liveness properties, `TransientOwned` and `ExcessOwned` except the work of such tasks explicitly: after a
restart a build shows Running and a cluster shows provisioning for ever, the scratch of
such a build is exempt from every later sweep, and a change whose build died waits for the next
commit. The repository promises nothing else. The safety theorems of section 5 hold across
any number of crashes.

## 4. Findings

Where the code does not do what a comment, the README or a script says; each is a run that
TLC refutes.

1. `build_jobs_workdir`: the sweep promises that "a concurrent build never has its working
   dirs pulled out from under it" (`jobs.rs:181`), but reads the running builds before the
   directory; a build recorded in between is swept.
2. `watcher_notes`: "Release notes are generated from each asset's commits since the last
   build" (`README.md:34`), but the watcher sets `last_seen` to the new head before it starts
   the build, whose notes then begin after that head: the commits that triggered a build are
   in no notes.
3. `pipeline_store`: the store is seeded "so images we don't harvest survive"
   (`pipeline.rs:321`), but through a directory named after the process. Two builds of the
   service that harvest at once empty each other's, and `image_store` is rebuilt without what
   was staged by hand. No failure is needed.
4. `pipeline_raw`: `release_image_arg` names `<release>.img` for the local-disk boot method,
   which the pipeline removes once it has the qcow2 and the `raw.zst`; the script wants "the release
   qcow2" (`scripts/provision-cluster.sh:10`) and stops when the file is not there.

Seen while modelling, with no run of their own:

- Of two releases of a flavor registered within one second the *later* is pruned first (the
  sort is stable and descending, ties keep push order; `NewestKept` takes the code's order).
- The sweep reads the advertised paths before the directory, so the image of a flavor
  named `edition` or `vol` that is registered in between is removed (the exception in
  `NewestKept`).
- Files go before records "since a record without its artifacts would advertise a download
  that 404s" (`jobs.rs:315`); for the length of a prune that is what happens. `MissingOwned`
  says that it is never longer.
- The tombstone is tested when a request arrives (`api.rs:201`) and not when its script
  starts; a release tombstoned in between is provisioned.
- After its script `provision` looks its release up by cluster name; if the name was
  provisioned anew meanwhile, the verdict on one release tombstones the other (`jobs.rs:530`).
- Two clusters of one release share `qa-cluster-<release>.json`; a passing run that writes
  before the blocking report is read loses the tombstone (`jobs.rs:423`).
- `delete` forgets a cluster whose script failed, and its machine keeps running.
- "A failure is logged and skipped" per component (`pipeline.rs:307`), but a `?` in one
  component's unpacking or loading ends the harvest of all others (`pipeline.rs:424`), and
  a failed mount of the image-store is not looked at (`pipeline.rs:328`).
- "did the manifest change?" is "should we build?" (`reconcile.rs:39`), but the identity it
  compares joins names and tags unescaped (`reconcile.rs:66`): with a `;` in a tag two
  different manifests can have one identity, and the second is not built.
- A build started by hand records in `last_seen` the heads it was made of (`jobs.rs:148`). If
  the watcher had not seen such a head, it will not, and the other flavors with the asset are
  not built for it until its next commit; no failure is needed (`preempted`).
- The scratch `initramfs-<id>` of a flavor named `meta` is taken for an `initramfs-meta-` of
  another build and swept while its own build runs (`jobs.rs:172`, `jobs.rs:212`).
- Each harvest adds its image under the tag of the release and removes none: the image-store
  grows with every release (`pipeline.rs:408`).
- `config.rs:264` calls the asset pattern a regex; it is a glob.

## 5. Proofs

The seven `*Proofs` modules hold theorems for all values of the constants, under the
assumptions the modules name: `FlavorAssumption` and `KnobAssumption` (each build has a
flavor; `Keep` and the bounds are natural numbers), `NameAssumption` and
`NoReleaseAssumption`, `PartsAssumption`, `NoFlavorAssumption` and `BoundAssumption`,
`KindAssumption` (the three kinds of components are disjoint), `TornAssumption`,
`ReleasedAssumption`, `HarvestBounds`, `ListAssumption`, `RepoAssumption` (asset lists are
sequences; repositories are numbers in the order of their names, which differ and have no
separators in them), `TagAssumption` (tags are sequences of characters), `NoneAssumption` (the values
that stand for none are no names, numbers or manifests). No set need be finite. Each module
of a state machine first proves its type invariant (`TypeCorrect`; for `Lookups` it is `InputOK`), which also relates variables: only pushed releases have records, only recorded
ones tombstones, a cluster has a release exactly when it has a record, a task a flavor
exactly when it is at work, a release an artifact exactly when it is recorded.

- `BuildJobsProofs!NewestSurvive` (`Spec => []NewestKept`). `NewestKept` is not inductive: a
  prune's deletion is justified by a snapshot, not by the current state. The invariant
  `KeptInv` adds `Numbered` (pushes are numbered in order and only finitely many happened),
  `Marked` (everything on a `doomed` list is `Beyond`: at least `Keep` releases of its flavor
  ever pushed come before it), `Removed` (what was pushed and has no record is `Beyond`),
  `Visited` (a prune's file list concerns only its `doomed`) and `Imaged` (the image is there
  while the release is about to be registered, and after unless it is `Beyond`). The argument
  is that `Beyond` is for ever: a new push takes its place by its time and after all earlier
  pushes, and changes no other comparison, so the rank of a release among all ever pushed
  only grows (`SmallerRank`, `BeyondForever`).
- `BuildJobsProofs!ImplementsRetention` (`Spec => IsRetention`): with the same invariant and
  `Willing` (nobody prunes when `Keep` is 0), each step offers a release, withdraws some that
  were doomed and therefore old, or stutters.
- `BuildJobsProofs!ExcessHasOwner`: no prune is ever the last to look and yet misses a
  release. `BuildJobsProofs!MissingHasOwner`: an image goes only as part of a file list whose
  owner has its release among its `doomed`.
- `StateFileProofs!Refinement` (`Spec => IsDurableState`). The invariant says that at most one
  call is saving, that the temporary file is whole and equal to memory when it is about to be
  renamed, and that `state.json` never holds anything torn. Each step then maps to `Commit`
  (the rename), `CommitUnsaved` (a failed save), `Restart` or `StartEmpty`, or to a stutter.
- `StateFileProofs!SavedStay`: a save never takes out of the file what the process knows of.
- `ClusterJobsProofs!PhaseHasOwner` (`Spec => []TransientOwned`): the invariant names, for each
  transient phase, the job and the stages in which its task may be.
- `ClusterJobsProofs!DeletedStays`, `!TombstonesRemain`: action properties; no other step
  makes a record, and none takes a tombstone from a release that keeps its record.
- `ClusterJobsProofs!TombstonesDeserved`: as long as no name is provisioned twice, record,
  machine and tasks of a name know of one release only (`OneRelease`), which came from the
  provision (`FromProvision`), and reports and verdicts are about releases that did what they
  say (`Reported`).
- `WatcherProofs!ChangeHasOwner` (`Spec => []ChangeOwned`): with `Known` (no sha anywhere is
  newer than the head, and an idle task holds none) the property is inductive.
- `PipelineProofs!AdvertisedStaysWhole`, `!NothingForgotten`: `DiskInv` says of each build, stage by stage,
  which forms may be there and in which condition, and that a record names what was made.
- `PipelineProofs!StagedImagesSurvive`: until something is `spoilt`, at most one build is at
  the inputs (`Alone`), and what was staged is in the store, or in the copy under way
  (`StoreKept`), in the harvest's tree once seeded (`TreeKept`) and in every volume
  (`VolumeKept`). It assumes `TornIsNoSet`, that the torn store is no set of images, which
  the model value of the runs is not.
- `PipelineProofs!LatestReleasesComposed` (`Spec => []LatestComposed`): `LatestInv` says of each
  build that has not `met` another that nobody else is at the inputs while it is (`Apart`)
  and, whatever earlier builds left there, that what it has fetched and is copying is nobody
  else's (`Fetched`); it follows what each harvested component came to from the layers to
  the edition (`AgentsLatest`) and from the tree over the packed and the stored image-store
  to the volume (`ImagesLatest`). "Latest" is the range `Recent` from what was the latest when
  the build began: it only grows, so what was in it stays in it. The property is about
  agents that share no binary with another (`Own`); two that do overwrite each other's.
- `GlobsProofs!GlobMatchesExactly`: `glob_match` accepts exactly what `Agrees`, the table over
  all pairs of places, does. `Split` cuts the pattern into parts with the places they begin
  at (`PartsOf`); the table says of a part that it must fit where it is, of a star that the
  rest fits here or further on (`RunTakesItself`, `StarTakesAny`). If the rest fits after a
  part somewhere, it fits after the first place the part occurs at, as the star that follows
  takes what lies between (`FirstIsEnough`); so the greedy scan loses nothing
  (`ScanSteps`), and only the last part, compared with the end of the name, needs
  `LastReachesEnd`. `LookupsProofs!ScansExactly` is the same as an invariant.
- `LookupsProofs!IdentityTells`, `!BuildsExactlyOnChange`: the way from manifest to identity is
  easy; the way back is read off the string. Where no tag has a `;`, the last `;` of an
  identity is where its last field begins, and so in an equal one (`SeparatorPlace`,
  `Separated`); what comes before are identities of one field less, and equal, so equal
  identities consist of the same fields (`FieldsOfIdentity`, over their number); the first `=` of a field ends the name, as no name has one
  (`FieldTells`); and `Sorted` lists each repository once, so the same fields in the same
  order are the same tags of the same repositories (`SamePairs`). For names and tags of any
  length, any number of repositories.
- `LookupsProofs!FlavorsResolve`, `!FlavorsCompose`: the recursive function in `Layers` exists
  and is unique, because the chain grows with every step (`WalkOfWalks`). The walk stays in
  every set that is closed under `extends` (`WalkStays`) and ends only where such a set may
  (`WalkEnds`), so its layers are the flavors of the least one, `Reached`. A name that is not
  reached may be on the chain or not (`WalkIgnores`), so outside a cycle the layers of a
  flavor are those of its base and itself. The nested loops of `AssetNames` then add, layer by
  layer, what is missing at the end of what is there (`AddAllExtends`).

**Induction.** The prover cannot instantiate the library's induction theorems, which take an
operator. `Induction` proves from the well-foundedness of the natural numbers what takes a
set or a function instead: `UpTo` and `ByMeasure` (whoever is in the set whenever all smaller
ones are, is), `RecursionExists` (a function may be defined by its values at smaller
arguments) and `FoldSteps` (a fold goes through its list one element after the other). That is
enough for the folds and recursive functions of this project, which are functions, not
RECURSIVE operators, and take one argument, a tuple where there are two.

Only model-checked: the liveness properties (`BuildFinishes`, `ExcessReclaimed`,
`ScratchReclaimed`, `TransientEnds`, `ChangeReleased`, `Settles`), which need fairness and
ENABLED, out of the prover's reach; and the refuted properties.

## 6. Not modelled

- Power loss: `save` does not sync, so a power failure may leave an empty `state.json`. Only
  the death of the process is modelled.
- The GitHub client's HTTP, tokens, JSON, commit messages and issue filing: I/O. Its calls
  are steps of `Watcher` and `Harvest` that fail or return what GitHub has.
- The REST read side, downloads and the web page: they read what the models hold and change
  nothing.
- The build VM driver: one external command and the parsing of its manifest; whether the
  artifacts it names reach `images/` is decided outside this repository.
- Deployment (Terragrunt), the text of logs and notes, and `Topology` in `reconcile.rs`, three
  constants that nothing uses.
- The scripts appear in `ClusterJobs` by their contract; two of the three are skeletons.
- Harvest directories a dead process left in `/tmp`: the next process has another name; and a
  mount that a failed `umount` leaves on one.
- A flavor named `meta` (section 4).
- Configuration parsing and defaults (`config.rs` apart from flavor resolution).

## 7. What could follow

1. `BuildJobs` and `ClusterJobs` over one release set: a provision whose release is pruned
   under it. `ClusterJobs` already allows a prune of any release at any time, so its safety
   properties hold there as well.
2. `Pipeline`'s harvest for more than one process, once a shared `build_dir` is supported.
