----------------------------- MODULE BuildJobs -----------------------------
(***************************************************************************)
(* The build job engine of stormcos-builder (jobs.rs): one tokio task per  *)
(* build records the build, runs the in-process pipeline, registers a      *)
(* release, runs QA, sweeps the intermediates of finished builds and       *)
(* prunes old releases of its flavor.  Any number of these tasks run at    *)
(* once, on a multi-threaded runtime, over one State and one images/       *)
(* directory, and the service may crash and restart between any two steps. *)
(*                                                                         *)
(* A step of this module is what the code does between two points where    *)
(* another task can run: one App::read, one App::mutate (durable when it   *)
(* returns; StateFile is about that), one external command, one directory  *)
(* entry.  What nothing here depends on is left out: the log files, the    *)
(* release's notes and shas, and the tombstone, which neither sweep nor    *)
(* prune reads.                                                            *)
(***************************************************************************)
EXTENDS Naturals, FiniteSets

CONSTANTS
  Builds,         \* build ids; a release has the id of its build
  Flavors,
  PrefixFlavors,  \* flavors named like an intermediate prefix ("edition", "vol")
  FlavorOf,       \* the flavor is the first part of a build id
  Keep,           \* cfg.keep_releases
  IoErrors,       \* whether removing a file may fail
  MaxClock,       \* bound: the seconds the clock may advance
  MaxCrashes      \* bound: the restarts of the service

ASSUME FlavorAssumption == /\ FlavorOf \in [Builds -> Flavors]
                           /\ PrefixFlavors \subseteq Flavors
ASSUME KnobAssumption == /\ Keep \in Nat
                         /\ IoErrors \in BOOLEAN
                         /\ MaxClock \in Nat
                         /\ MaxCrashes \in Nat

VARIABLES
  builds,      \* State.builds: the status of each recorded build
  releases,    \* State.releases: the ids that have a record
  created,     \* Release.created, in seconds
  position,    \* the ordinal of the push to State.releases, 0 before it
  pushes,      \* how many releases were ever pushed
  disk,        \* the entries of images/
  now,         \* Utc::now() in whole seconds
  crashes,
  pc,          \* where each build task is
  running,     \* sweep_intermediates: local `running`
  advertised,  \* sweep_intermediates: local `keep`
  doomed,      \* prune_old_releases: local `doomed`
  todo         \* directory entries the task has still to visit

state == <<builds, releases, created, position, pushes>>
locals == <<running, advertised, doomed, todo>>
vars == <<state, disk, now, crashes, pc, locals>>

-----------------------------------------------------------------------------
(* Files.  A build's scratch stands for its edition-, vol-, irfs- and      *)
(* initramfs entries, its image for the artifacts the release advertises.  *)

Scratch(b) == <<"scratch", b>>
Image(b) == <<"image", b>>
Files == {"scratch", "image"} \X Builds

(* The name matches INTERMEDIATE_PREFIXES. *)
LooksIntermediate(e) == e[1] = "scratch" \/ FlavorOf[e[2]] \in PrefixFlavors

(* What one iteration of the sweep removes, given the two snapshots.  The  *)
(* id left after the prefix is that of a running build only for scratch:   *)
(* of an image the prefix has eaten the flavor.  (Of initramfs-<id> as     *)
(* well in a flavor named "meta", where initramfs-meta- matches first and  *)
(* spares no running build; there is no such flavor here.)                 *)
Sweepable(e, live, kept) ==
  /\ LooksIntermediate(e)
  /\ ~(e[1] = "scratch" /\ e[2] \in live)
  /\ e \notin kept

-----------------------------------------------------------------------------
(* The order prune_old_releases sorts by: newest `created` first.  The     *)
(* sort is stable, so within one second the earlier push comes first.      *)

Registered == {b \in Builds : position[b] # 0}

Newer(q, r) ==
  \/ created[q] > created[r]
  \/ created[q] = created[r] /\ position[q] < position[r]

Above(S, r) == {q \in S : FlavorOf[q] = FlavorOf[r] /\ Newer(q, r)}

(* How many of S come before r. *)
Rank(S, r) == Cardinality(Above(S, r))

(* filter by flavor, sort, skip(keep) *)
Doomed_Ascending(f) ==
  {r \in releases :
     FlavorOf[r] = f /\ Cardinality({q \in releases :
                         FlavorOf[q] = f /\ Newer(r, q)}) >= Keep}
Doomed_AnyFlavor(f) ==
  {r \in releases : Cardinality({q \in releases : Newer(q, r)}) >= Keep}
Doomed_KeepsOneMore(f) ==
  {r \in releases : FlavorOf[r] = f /\ Rank(releases, r) > Keep}
Doomed(f) == {r \in releases : FlavorOf[r] = f /\ Rank(releases, r) >= Keep}

-----------------------------------------------------------------------------
Init ==
  /\ builds = [b \in Builds |-> "none"]
  /\ releases = {}
  /\ created = [b \in Builds |-> 0]
  /\ position = [b \in Builds |-> 0]
  /\ pushes = 0
  /\ disk = {}
  /\ now = 0
  /\ crashes = 0
  /\ pc = [b \in Builds |-> "idle"]
  /\ running = [b \in Builds |-> {}]
  /\ advertised = [b \in Builds |-> {}]
  /\ doomed = [b \in Builds |-> {}]
  /\ todo = [b \in Builds |-> {}]

Goto(b, from, to) == pc[b] = from /\ pc' = [pc EXCEPT ![b] = to]

-----------------------------------------------------------------------------
(* build(): record, pipeline, register                                     *)

(* A request or the watcher spawns build(), whose first step pushes the    *)
(* Build record.                                                           *)
Start(b) ==
  /\ Goto(b, "idle", "started")
  /\ builds' = [builds EXCEPT ![b] = "running"]
  /\ UNCHANGED <<releases, created, position, pushes, disk, now, crashes, locals>>

(* The compose steps fill the working directories. *)
Compose(b) ==
  /\ Goto(b, "started", "composing")
  /\ disk' = disk \cup {Scratch(b)}
  /\ UNCHANGED <<state, now, crashes, locals>>

(* The later steps read the working directories and leave the image. *)
Assemble(b) ==
  /\ Goto(b, "composing", "built")
  /\ Scratch(b) \in disk
  /\ disk' = disk \cup {Image(b)}
  /\ UNCHANGED <<state, now, crashes, locals>>

(* Any step of the pipeline may fail, from the first compose to the        *)
(* measuring of the artifacts; what it wrote stays where it is.            *)
PipelineFails(b) ==
  /\ \/ Goto(b, "started", "failed") /\ UNCHANGED disk
     \/ Goto(b, "composing", "failed") /\ disk' \in {disk, disk \cup {Image(b)}}
  /\ UNCHANGED <<state, now, crashes, locals>>

(* The closing mutate of build(), for Ok and for Err. *)
RecordSuccess_Unordered(b) ==
  /\ Goto(b, "built", "qa")
  /\ builds' = [builds EXCEPT ![b] = "success"]
  /\ releases' = releases \cup {b}
  /\ created' = [created EXCEPT ![b] = now]
  /\ UNCHANGED <<position, pushes, disk, now, crashes, locals>>
RecordSuccess(b) ==
  /\ Goto(b, "built", "qa")
  /\ builds' = [builds EXCEPT ![b] = "success"]
  /\ releases' = releases \cup {b}
  /\ created' = [created EXCEPT ![b] = now]
  /\ position' = [position EXCEPT ![b] = pushes + 1]
  /\ pushes' = pushes + 1
  /\ UNCHANGED <<disk, now, crashes, locals>>

RecordFailure_Lost(b) ==
  /\ Goto(b, "failed", "done")
  /\ UNCHANGED <<state, disk, now, crashes, locals>>
RecordFailure(b) ==
  /\ Goto(b, "failed", "done")
  /\ builds' = [builds EXCEPT ![b] = "failed"]
  /\ UNCHANGED <<releases, created, position, pushes, disk, now, crashes, locals>>

-----------------------------------------------------------------------------
(* sweep_intermediates(), once run_qa has returned: the runner takes its   *)
(* time, and its verdict changes nothing that sweep or prune look at       *)

ReadRunning_SparesFailed(b) ==
  /\ Goto(b, "qa", "sweepKeep")
  /\ running' = [running EXCEPT ![b] =
                   {x \in Builds : builds[x] \notin {"none", "success"}}]
  /\ UNCHANGED <<state, disk, now, crashes, advertised, doomed, todo>>
ReadRunning(b) ==
  /\ Goto(b, "qa", "sweepKeep")
  /\ running' = [running EXCEPT ![b] = {x \in Builds : builds[x] = "running"}]
  /\ UNCHANGED <<state, disk, now, crashes, advertised, doomed, todo>>

ReadAdvertised(b) ==
  /\ Goto(b, "sweepKeep", "sweepOpen")
  /\ advertised' = [advertised EXCEPT ![b] = {Image(r) : r \in releases}]
  /\ UNCHANGED <<state, disk, now, crashes, running, doomed, todo>>

OpenImages(b) ==
  /\ Goto(b, "sweepOpen", "sweeping")
  /\ todo' = [todo EXCEPT ![b] =
                {e \in disk : Sweepable(e, running[b], advertised[b])}]
  /\ UNCHANGED <<state, disk, now, crashes, running, advertised, doomed>>

(* read_dir fails: nothing is swept. *)
CannotOpenImages(b) ==
  /\ IoErrors
  /\ Goto(b, "sweepOpen", "prune")
  /\ running' = [running EXCEPT ![b] = {}]
  /\ advertised' = [advertised EXCEPT ![b] = {}]
  /\ UNCHANGED <<state, disk, now, crashes, doomed, todo>>

(* One entry.  read_dir may also return entries made after it was opened. *)
SweepEntry(b) ==
  /\ pc[b] = "sweeping"
  /\ \E e \in disk :
       /\ Sweepable(e, running[b], advertised[b])
       /\ disk' = disk \ {e}
       /\ todo' = [todo EXCEPT ![b] = @ \ {e}]
  /\ UNCHANGED <<state, now, crashes, pc, running, advertised, doomed>>

(* The removal fails, or somebody else was faster: a warning, no more. *)
SkipEntry(b) ==
  /\ pc[b] = "sweeping"
  /\ \E e \in todo[b] :
       /\ e \notin disk \/ IoErrors
       /\ todo' = [todo EXCEPT ![b] = @ \ {e}]
  /\ UNCHANGED <<state, disk, now, crashes, pc, running, advertised, doomed>>

EndSweep(b) ==
  /\ Goto(b, "sweeping", "prune")
  /\ todo[b] = {}
  /\ running' = [running EXCEPT ![b] = {}]
  /\ advertised' = [advertised EXCEPT ![b] = {}]
  /\ UNCHANGED <<state, disk, now, crashes, doomed, todo>>

-----------------------------------------------------------------------------
(* prune_old_releases()                                                    *)

(* Pruning disabled, or nothing to prune. *)
NothingToPrune(b) ==
  /\ Goto(b, "prune", "done")
  /\ Keep = 0 \/ Doomed(FlavorOf[b]) = {}
  /\ UNCHANGED <<state, disk, now, crashes, locals>>

ReadDoomed(b) ==
  /\ Goto(b, "prune", "prunePaths")
  /\ Keep # 0 /\ Doomed(FlavorOf[b]) # {}
  /\ doomed' = [doomed EXCEPT ![b] = Doomed(FlavorOf[b])]
  /\ UNCHANGED <<state, disk, now, crashes, running, advertised, todo>>

(* A second read: only the doomed that still have a record name their      *)
(* artifacts; their intermediates are named from the id.                   *)
ReadPaths(b) ==
  /\ Goto(b, "prunePaths", "pruning")
  /\ todo' = [todo EXCEPT ![b] = {Image(r) : r \in doomed[b] \cap releases}
                                   \cup {Scratch(r) : r \in doomed[b]}]
  /\ UNCHANGED <<state, disk, now, crashes, running, advertised, doomed>>

PruneFile(b) ==
  /\ pc[b] = "pruning"
  /\ \E e \in todo[b] :
       /\ todo' = [todo EXCEPT ![b] = @ \ {e}]
       /\ disk' = disk \ {e} \/ (IoErrors /\ UNCHANGED disk)
  /\ UNCHANGED <<state, now, crashes, pc, running, advertised, doomed>>

PruneRecords_BuildsOnly(b) ==
  /\ Goto(b, "pruning", "done")
  /\ todo[b] = {}
  /\ builds' = [x \in Builds |-> IF x \in doomed[b] THEN "none" ELSE builds[x]]
  /\ doomed' = [doomed EXCEPT ![b] = {}]
  /\ UNCHANGED <<releases, created, position, pushes, disk, now, crashes,
                 running, advertised, todo>>
PruneRecords(b) ==
  /\ Goto(b, "pruning", "done")
  /\ todo[b] = {}
  /\ releases' = releases \ doomed[b]
  /\ builds' = [x \in Builds |-> IF x \in doomed[b] THEN "none" ELSE builds[x]]
  /\ doomed' = [doomed EXCEPT ![b] = {}]
  /\ UNCHANGED <<created, position, pushes, disk, now, crashes,
                 running, advertised, todo>>

-----------------------------------------------------------------------------
(* The clock and the service itself                                        *)

Tick ==
  /\ now < MaxClock
  /\ now' = now + 1
  /\ UNCHANGED <<state, disk, crashes, pc, locals>>

(* The process dies and is restarted: State::load brings back what was     *)
(* persisted, the files stay, every task and its locals are gone.  Nothing *)
(* resumes a build or corrects its status.                                 *)
Crash ==
  /\ crashes < MaxCrashes
  /\ crashes' = crashes + 1
  /\ pc' = [b \in Builds |-> IF pc[b] \in {"idle", "done"} THEN pc[b] ELSE "dead"]
  /\ running' = [b \in Builds |-> {}]
  /\ advertised' = [b \in Builds |-> {}]
  /\ doomed' = [b \in Builds |-> {}]
  /\ todo' = [b \in Builds |-> {}]
  /\ UNCHANGED <<state, disk, now>>

(* The steps of one task once it was spawned. *)
JobStep(b) ==
  \/ Compose(b) \/ Assemble(b) \/ PipelineFails(b)
  \/ RecordSuccess(b) \/ RecordFailure(b)
  \/ ReadRunning(b) \/ ReadAdvertised(b)
  \/ OpenImages(b) \/ CannotOpenImages(b)
  \/ SweepEntry(b) \/ SkipEntry(b) \/ EndSweep(b)
  \/ NothingToPrune(b) \/ ReadDoomed(b) \/ ReadPaths(b)
  \/ PruneFile(b) \/ PruneRecords(b)

Next ==
  \/ \E b \in Builds : Start(b) \/ JobStep(b)
  \/ Tick
  \/ Crash

Spec == Init /\ [][Next]_vars

(* The runtime polls every spawned task, and every command ends. *)
FairSpec == Spec /\ \A b \in Builds : WF_vars(JobStep(b))

-----------------------------------------------------------------------------
(* Properties                                                              *)

BeforePrune == {"qa", "sweepKeep", "sweepOpen", "sweeping", "prune"}
Pruning == {"prunePaths", "pruning"}
Stages == {"idle", "started", "composing", "built", "failed", "done", "dead"}
            \cup BeforePrune \cup Pruning

(* The type invariant: each variable has its type, and a record exists     *)
(* only of a release that was pushed.                                      *)
TypeOK ==
  /\ builds \in [Builds -> {"none", "running", "success", "failed"}]
  /\ releases \subseteq Registered
  /\ created \in [Builds -> Nat]
  /\ position \in [Builds -> Nat]
  /\ pushes \in Nat
  /\ disk \subseteq Files
  /\ now \in Nat
  /\ crashes \in Nat
  /\ pc \in [Builds -> Stages]
  /\ running \in [Builds -> SUBSET Builds]
  /\ advertised \in [Builds -> SUBSET Files]
  /\ doomed \in [Builds -> SUBSET Builds]
  /\ todo \in [Builds -> SUBSET Files]

(* The newest keep_releases releases of a flavor, among all it ever had,   *)
(* always have their record and their image, whatever the prunes of        *)
(* several builds, the sweeps and the crashes do to each other             *)
(* (prune_old_releases works from a snapshot it may act on much later).    *)
(* The image of a flavor named like an intermediate is not covered: a      *)
(* sweep that read the artifacts before the release was registered takes   *)
(* it away.                                                                *)
NewestKept ==
  \A r \in Registered :
    Rank(Registered, r) < Keep =>
      /\ r \in releases
      /\ Image(r) \in disk \/ FlavorOf[r] \in PrefixFlavors

(* A release beyond keep_releases is somebody's job: the latest build of   *)
(* the flavor has still to look for it, or has it among its doomed, or     *)
(* died with the service.  So once the latest build is done, at most Keep  *)
(* releases of the flavor are left, whoever pruned them.                   *)
Latest(m) == \A q \in Registered :
               FlavorOf[q] = FlavorOf[m] => position[q] <= position[m]
ExcessOwned ==
  \A r \in releases, m \in Registered :
    (/\ Keep > 0
     /\ FlavorOf[m] = FlavorOf[r]
     /\ Latest(m)
     /\ Rank(releases, r) >= Keep)
    => \/ pc[m] \in BeforePrune \cup {"dead"}
       \/ pc[m] \in Pruning /\ r \in doomed[m]

(* Sweeps, prunes and crashes implement Retention: whatever the snapshots  *)
(* a prune works from have become when it acts on them, what can be had    *)
(* grows by the release that is registered, and shrinks only by releases   *)
(* that are older than the newest keep_releases at that very moment; none  *)
(* comes back.  The flavors named like an intermediate are excepted as in  *)
(* NewestKept.                                                             *)
Offered == {r \in releases : Image(r) \in disk \/ FlavorOf[r] \in PrefixFlavors}
Retained == INSTANCE Retention WITH offered <- Offered
IsRetention == Retained!Spec

(* "a record without its artifacts would advertise a download that 404s":  *)
(* between the removal of a release's files and that of its record it      *)
(* does, but never for good -- a release whose image is gone is among the  *)
(* doomed of a prune that has still to remove the record, unless a prune   *)
(* died with the service.  The flavors named like an intermediate are      *)
(* excepted again.                                                         *)
MissingOwned ==
  \A r \in releases :
    \/ Image(r) \in disk \/ FlavorOf[r] \in PrefixFlavors
    \/ \E b \in Builds : \/ pc[b] = "pruning" /\ r \in doomed[b]
                         \/ pc[b] = "dead"

(* build() always writes the final status: a build the state calls Running *)
(* stops being so, unless the service dies under its task.                 *)
BuildFinishes ==
  \A b \in Builds :
    builds[b] = "running" ~> (builds[b] # "running" \/ pc[b] = "dead")

(* A release beyond keep_releases loses its record in the end, unless the  *)
(* service dies: no interleaving of prunes leaves one to nobody.           *)
ExcessReclaimed ==
  \A r \in Builds :
    (r \in releases /\ Keep > 0 /\ Rank(releases, r) >= Keep)
      ~> (r \notin releases \/ \E b \in Builds : pc[b] = "dead")

(* The sweep of a successful build m reclaims the scratch of every build   *)
(* that finished before it, failed ones included (jobs.rs: "intermediates  *)
(* left by ANY finished build").                                           *)
ScratchReclaimed ==
  \A b, m \in Builds :
    (builds[b] \in {"success", "failed"} /\ pc[m] \in {"built", "qa"})
      ~> (Scratch(b) \notin disk \/ pc[m] = "dead")

-----------------------------------------------------------------------------
(* What a comment of jobs.rs says, and the code does not do.               *)

(* "a concurrent build never has its working dirs pulled out from under    *)
(* it": the sweep of one task never removes the scratch of a build that is *)
(* running.                                                                *)
WorkingDirsKept ==
  [][\A b, x \in Builds :
       (SweepEntry(b) /\ pc[x] = "composing" /\ Scratch(x) \in disk)
         => Scratch(x) \in disk']_vars

=============================================================================
