---------------------------- MODULE ClusterJobs ----------------------------
(***************************************************************************)
(* The cluster jobs of stormcos-builder (jobs.rs, api.rs) and the QA gate  *)
(* on releases.  Each accepted request is a tokio task of its own that     *)
(* provisions, rebuilds or deletes the cluster of some name; nothing       *)
(* serialises the tasks of one name.  After a provision, cluster-scope QA  *)
(* runs against the node and its verdict is folded into a release.         *)
(*                                                                         *)
(* A step is what the code does between two points where another task can  *)
(* run: an App::read, an App::mutate, the truncation or the reading of a   *)
(* file, what a script does to the machine.  The scripts and the QA runner *)
(* are modelled from their use here and are at their best: they do what    *)
(* they are asked for or fail, and the runner's report is about the node   *)
(* it reached.  QA is configured (qa, qe_key).                             *)
(***************************************************************************)
EXTENDS Naturals

CONSTANTS
  Tasks,        \* the accepted requests
  Names,        \* cluster names, which are machine names too
  NameOf,       \* the name a request is about
  Releases,
  NoRelease,    \* release_id_of a name without record; no machine
  ScriptsFail,  \* whether a script may fail
  MaxCrashes    \* bound: the restarts of the service

ASSUME NameAssumption == NameOf \in [Tasks -> Names]
ASSUME NoReleaseAssumption == NoRelease \notin Releases
ASSUME KnobAssumption == ScriptsFail \in BOOLEAN /\ MaxCrashes \in Nat

VARIABLES
  releases,    \* State.releases: the ids that have a record
  tombstoned,  \* Release.tombstoned
  image,       \* where the image-scope QA of each release is
  cluster,     \* State.clusters by name: phase ("none": no record), release
  vm,          \* the release each machine runs
  log,         \* cluster-<name>.log: whether it ends in a usable IP= line
  report,      \* qa-cluster-<release>.json: the verdict in it
  crashes,
  pc, job,     \* where each task is, and which job it does
  rel,         \* its release_id
  found,       \* whether it found an address in the log
  verdict,     \* the report it parsed
  faulty       \* history: the releases a runner saw fail a blocking test

gate == <<releases, tombstoned, image>>
world == <<vm, log, report, faulty>>
locals == <<job, rel, found, verdict>>
vars == <<gate, cluster, world, crashes, pc, locals>>

Jobs == {"provision", "rebuild", "delete"}
Transient == [provision |-> "provisioning", rebuild |-> "rebuilding",
              delete |-> "deleting"]
NoRecord == [phase |-> "none", release |-> NoRelease]

Exists(n) == cluster[n].phase # "none"
Goto(t, from, to) == pc[t] = from /\ pc' = [pc EXCEPT ![t] = to]

(* `if let Some(c) = s.cluster_mut(&name)`: no record, no change. *)
SetPhase_Always(n, ph) == cluster' = [cluster EXCEPT ![n].phase = ph]
SetPhase(n, ph) ==
  cluster' = IF Exists(n) THEN [cluster EXCEPT ![n].phase = ph] ELSE cluster

Init ==
  /\ releases = {}
  /\ tombstoned = {}
  /\ image = [r \in Releases |-> "unbuilt"]
  /\ cluster = [n \in Names |-> NoRecord]
  /\ vm = [n \in Names |-> NoRelease]
  /\ log = [n \in Names |-> FALSE]
  /\ report = [r \in Releases \cup {NoRelease} |-> "none"]
  /\ crashes = 0
  /\ pc = [t \in Tasks |-> "idle"]
  /\ job = [t \in Tasks |-> "provision"]
  /\ rel = [t \in Tasks |-> NoRelease]
  /\ found = [t \in Tasks |-> FALSE]
  /\ verdict = [t \in Tasks |-> "none"]
  /\ faulty = {}

-----------------------------------------------------------------------------
(* What the build engine does to releases                                  *)

(* A release can be provisioned as soon as it is pushed. *)
Register(r) ==
  /\ image[r] = "unbuilt"
  /\ image' = [image EXCEPT ![r] = "qa"]
  /\ releases' = releases \cup {r}
  /\ UNCHANGED <<tombstoned, cluster, world, crashes, pc, locals>>

(* record_qa of the image-scope pass, whose report file is its own. *)
ImageQa(r) ==
  /\ image[r] = "qa"
  /\ image' = [image EXCEPT ![r] = "done"]
  /\ \/ UNCHANGED <<tombstoned, faulty>>
     \/ /\ faulty' = faulty \cup {r}
        /\ tombstoned' = tombstoned \cup ({r} \cap releases)
  /\ UNCHANGED <<releases, cluster, vm, log, report, crashes, pc, locals>>

Prune(r) ==
  /\ r \in releases
  /\ releases' = releases \ {r}
  /\ tombstoned' = tombstoned \ {r}
  /\ UNCHANGED <<image, cluster, world, crashes, pc, locals>>

-----------------------------------------------------------------------------
(* The request handlers: check, answer, spawn                              *)

CreateCluster(t) ==
  /\ Goto(t, "idle", "asked")
  /\ job' = [job EXCEPT ![t] = "provision"]
  /\ \E r \in releases \ tombstoned : rel' = [rel EXCEPT ![t] = r]
  /\ UNCHANGED <<gate, cluster, world, crashes, found, verdict>>

AskForExisting(t) ==
  /\ Goto(t, "idle", "asked")
  /\ Exists(NameOf[t])
  /\ \E j \in {"rebuild", "delete"} : job' = [job EXCEPT ![t] = j]
  /\ UNCHANGED <<gate, cluster, world, crashes, rel, found, verdict>>

-----------------------------------------------------------------------------
(* The first half of each job, up to its script                            *)

(* provision: retain the others, push the new record. *)
RecordCluster(t) ==
  /\ Goto(t, "asked", "launch")
  /\ job[t] = "provision"
  /\ cluster' = [cluster EXCEPT ![NameOf[t]] =
                   [phase |-> "provisioning", release |-> rel[t]]]
  /\ UNCHANGED <<gate, world, crashes, locals>>

(* rebuild: the release of the record, if it is still there ... *)
ReadCluster(t) ==
  /\ job[t] = "rebuild"
  /\ IF Exists(NameOf[t])
       THEN Goto(t, "asked", "mark") /\ rel' = [rel EXCEPT ![t] = cluster[NameOf[t]].release]
       ELSE Goto(t, "asked", "done") /\ UNCHANGED rel
  /\ UNCHANGED <<gate, cluster, world, crashes, job, found, verdict>>

(* ... and then, as delete does first, the phase. *)
MarkCluster(t) ==
  /\ \/ job[t] = "rebuild" /\ Goto(t, "mark", "launch")
     \/ job[t] = "delete" /\ Goto(t, "asked", "launch")
  /\ SetPhase(NameOf[t], Transient[job[t]])
  /\ UNCHANGED <<gate, world, crashes, locals>>

-----------------------------------------------------------------------------
(* run(): the script, and the log all jobs of a name share                 *)

(* File::create truncates the log. *)
StartScript(t) ==
  /\ Goto(t, "launch", "script")
  /\ log' = [log EXCEPT ![NameOf[t]] = FALSE]
  /\ UNCHANGED <<gate, cluster, vm, report, faulty, crashes, locals>>

(* The script boots the release it was given (its image has to be there),  *)
(* or destroys the machine.                                                *)
ScriptActs(t) ==
  /\ Goto(t, "script", "acted")
  /\ \/ job[t] = "delete" /\ vm' = [vm EXCEPT ![NameOf[t]] = NoRelease]
     \/ /\ job[t] # "delete"
        /\ rel[t] \in releases
        /\ vm' = [vm EXCEPT ![NameOf[t]] = rel[t]]
  /\ UNCHANGED <<gate, cluster, log, report, faulty, crashes, locals>>

(* Only provision-cluster.sh ends by printing a usable IP= line. *)
ScriptEnds(t) ==
  /\ Goto(t, "acted", "ok")
  /\ log' = [log EXCEPT ![NameOf[t]] = @ \/ job[t] = "provision"]
  /\ UNCHANGED <<gate, cluster, vm, report, faulty, crashes, locals>>

(* An image that is gone makes it fail, whatever else may. *)
ScriptFails(t) ==
  /\ \/ ScriptsFail /\ pc[t] \in {"launch", "script", "acted"}
     \/ pc[t] = "script" /\ job[t] # "delete" /\ rel[t] \notin releases
  /\ pc' = [pc EXCEPT ![t] = "failed"]
  /\ UNCHANGED <<gate, cluster, world, crashes, locals>>

-----------------------------------------------------------------------------
(* The second half                                                         *)

(* provision: ip_from_log *)
ReadAddress(t) ==
  /\ Goto(t, "ok", "settle")
  /\ job[t] = "provision"
  /\ found' = [found EXCEPT ![t] = log[NameOf[t]]]
  /\ UNCHANGED <<gate, cluster, world, crashes, job, rel, verdict>>

Settle_NoPhase(t) ==
  /\ \/ job[t] = "provision" /\ Goto(t, "settle", IF found[t] THEN "gate" ELSE "done")
     \/ job[t] = "rebuild" /\ Goto(t, "ok", "done")
  /\ UNCHANGED <<gate, cluster, world, crashes, locals>>
Settle(t) ==
  /\ \/ job[t] = "provision" /\ Goto(t, "settle", IF found[t] THEN "gate" ELSE "done")
     \/ job[t] = "rebuild" /\ Goto(t, "ok", "done")
  /\ SetPhase(NameOf[t], "ready")
  /\ UNCHANGED <<gate, world, crashes, locals>>

SettleFailed(t) ==
  /\ Goto(t, "failed", "done")
  /\ job[t] # "delete"
  /\ SetPhase(NameOf[t], "failed")
  /\ UNCHANGED <<gate, world, crashes, locals>>

(* delete: whatever became of the script. *)
Forget(t) ==
  /\ pc[t] \in {"ok", "failed"}
  /\ pc' = [pc EXCEPT ![t] = "done"]
  /\ job[t] = "delete"
  /\ cluster' = [cluster EXCEPT ![NameOf[t]] = NoRecord]
  /\ UNCHANGED <<gate, world, crashes, locals>>

-----------------------------------------------------------------------------
(* Cluster-scope QA after a provision                                      *)

(* release_id_of: the release the name has now. *)
PickRelease(t) ==
  /\ Goto(t, "gate", "qa")
  /\ rel' = [rel EXCEPT ![t] = cluster[NameOf[t]].release]
  /\ UNCHANGED <<gate, cluster, world, crashes, job, found, verdict>>

ReportFile(r) == r

(* The runner reports on what the machine runs; where there is none, or    *)
(* the runner does not start, the file stays as it was.                    *)
RunClusterQa(t) ==
  /\ Goto(t, "qa", "report")
  /\ \/ UNCHANGED <<report, faulty>>
     \/ /\ vm[NameOf[t]] # NoRelease
        /\ report' = [report EXCEPT ![ReportFile(rel[t])] = "pass"]
        /\ UNCHANGED faulty
     \/ /\ vm[NameOf[t]] # NoRelease
        /\ report' = [report EXCEPT ![ReportFile(rel[t])] = "block"]
        /\ faulty' = faulty \cup {vm[NameOf[t]]}
  /\ UNCHANGED <<gate, cluster, vm, log, crashes, locals>>

(* record_qa: parse the file, then fold. *)
ReadReport(t) ==
  /\ Goto(t, "report", "fold")
  /\ verdict' = [verdict EXCEPT ![t] = report[ReportFile(rel[t])]]
  /\ UNCHANGED <<gate, cluster, world, crashes, job, rel, found>>

FoldVerdict_Latest(t) ==
  /\ Goto(t, "fold", "done")
  /\ tombstoned' = IF verdict[t] = "block" THEN tombstoned \cup ({rel[t]} \cap releases)
                   ELSE IF verdict[t] = "pass" THEN tombstoned \ {rel[t]}
                   ELSE tombstoned
  /\ UNCHANGED <<releases, image, cluster, world, crashes, locals>>
FoldVerdict_Unread(t) ==
  /\ Goto(t, "fold", "done")
  /\ tombstoned' = IF verdict[t] # "pass" THEN tombstoned \cup ({rel[t]} \cap releases)
                   ELSE tombstoned
  /\ UNCHANGED <<releases, image, cluster, world, crashes, locals>>
FoldVerdict(t) ==
  /\ Goto(t, "fold", "done")
  /\ tombstoned' = IF verdict[t] = "block" THEN tombstoned \cup ({rel[t]} \cap releases)
                   ELSE tombstoned
  /\ UNCHANGED <<releases, image, cluster, world, crashes, locals>>

-----------------------------------------------------------------------------
(* The service dies; its children die with it, the machines stay.          *)
Crash ==
  /\ crashes < MaxCrashes
  /\ crashes' = crashes + 1
  /\ pc' = [t \in Tasks |-> IF pc[t] \in {"idle", "done"} THEN pc[t] ELSE "dead"]
  /\ image' = [r \in Releases |-> IF image[r] = "qa" THEN "done" ELSE image[r]]
  /\ UNCHANGED <<releases, tombstoned, cluster, world, locals>>

TaskStep(t) ==
  \/ RecordCluster(t) \/ ReadCluster(t) \/ MarkCluster(t)
  \/ StartScript(t) \/ ScriptActs(t) \/ ScriptEnds(t) \/ ScriptFails(t)
  \/ ReadAddress(t) \/ Settle(t) \/ SettleFailed(t) \/ Forget(t)
  \/ PickRelease(t) \/ RunClusterQa(t) \/ ReadReport(t) \/ FoldVerdict(t)

Next ==
  \/ \E r \in Releases : Register(r) \/ ImageQa(r) \/ Prune(r)
  \/ \E t \in Tasks : CreateCluster(t) \/ AskForExisting(t) \/ TaskStep(t)
  \/ Crash

Spec == Init /\ [][Next]_vars

(* The runtime polls every spawned task, and every command ends. *)
FairSpec == Spec /\ \A t \in Tasks : WF_vars(TaskStep(t))

-----------------------------------------------------------------------------
(* Properties                                                              *)

Working == {"mark", "launch", "script", "acted", "ok", "settle", "failed"}
Gating == {"gate", "qa", "report", "fold"}
Verdicts == {"none", "pass", "block"}
Phases == {"none", "provisioning", "rebuilding", "deleting", "ready", "failed"}

(* The type invariant: each variable has its type, only a release with a   *)
(* record has a tombstone, and only a record has a release.                *)
TypeOK ==
  /\ releases \subseteq Releases
  /\ tombstoned \subseteq releases
  /\ image \in [Releases -> {"unbuilt", "qa", "done"}]
  /\ cluster \in [Names -> [phase : Phases, release : Releases \cup {NoRelease}]]
  /\ \A n \in Names : Exists(n) <=> cluster[n].release # NoRelease
  /\ vm \in [Names -> Releases \cup {NoRelease}]
  /\ log \in [Names -> BOOLEAN]
  /\ report \in [Releases \cup {NoRelease} -> Verdicts]
  /\ crashes \in Nat
  /\ pc \in [Tasks -> {"idle", "asked", "done", "dead"} \cup Working \cup Gating]
  /\ job \in [Tasks -> Jobs]
  /\ rel \in [Tasks -> Releases \cup {NoRelease}]
  /\ found \in [Tasks -> BOOLEAN]
  /\ verdict \in [Tasks -> Verdicts]
  /\ faulty \subseteq Releases

(* "a later (cluster) pass only ever adds tombstones, never clears one":   *)
(* whatever passes run against a release, in whatever order they report,   *)
(* a tombstone goes only with the record.                                  *)
TombstonesStay == [][tombstoned \cap releases' \subseteq tombstoned']_vars

(* A cluster shown as provisioning, rebuilding or deleting has a task of   *)
(* that job at work (or that died with the service), however the jobs of   *)
(* the name overlap: none of them leaves a phase behind that nobody will   *)
(* end.                                                                    *)
TransientOwned ==
  \A n \in Names, j \in Jobs :
    cluster[n].phase = Transient[j] =>
      \E t \in Tasks : /\ NameOf[t] = n /\ job[t] = j
                       /\ pc[t] \in Working \cup {"dead"}

(* A forgotten name comes back only when a provision records it: a job     *)
(* that was overtaken by a delete does not resurrect the record when it    *)
(* ends.                                                                   *)
NoResurrection ==
  [][\A n \in Names :
       (~Exists(n) /\ Exists(n)')
         => \E t \in Tasks : NameOf[t] = n /\ RecordCluster(t)]_vars

(* A cluster does not stay provisioning, rebuilding or deleting, unless    *)
(* the service dies.                                                       *)
TransientEnds ==
  \A n \in Names :
    (cluster[n].phase \in {"provisioning", "rebuilding", "deleting"})
      ~> (\/ cluster[n].phase \in {"none", "ready", "failed"}
          \/ \E t \in Tasks : pc[t] = "dead")

(* Only a release that failed a blocking test has a tombstone, although    *)
(* the verdict is folded into whatever release the name has when the       *)
(* script ends, rebuilds and deletes of the name overlap, and the runs of  *)
(* one release share a report file.  Only a second provision of some name  *)
(* breaks it: then the verdict on one release may tombstone another.       *)
ProvisionedTwice ==
  \E t, u \in Tasks :
    /\ t # u /\ NameOf[t] = NameOf[u]
    /\ \A v \in {t, u} : job[v] = "provision" /\ pc[v] # "idle"
TombstoneDeserved == ProvisionedTwice \/ tombstoned \subseteq faulty

=============================================================================
