----------------------------- MODULE Pipeline -----------------------------
(***************************************************************************)
(* The in-process build pipeline (pipeline.rs `build`), from the harvested *)
(* inputs to the artifacts of a release, and what others do with these:    *)
(* jobs.rs registers and prunes them, main.rs hands one to the scripts     *)
(* that provision a machine.  Any number of builds run at once over the    *)
(* inputs of Harvest and one images/ directory, and the service may die.   *)
(*                                                                         *)
(* A step is one external command, one copy or one State::mutate.  The     *)
(* working directories (edition-, vol-, irfs-, initramfs-) and the order   *)
(* releases are pruned in are BuildJobs'; an .iso is made by nobody here.  *)
(***************************************************************************)
EXTENDS Harvest

VARIABLES
  edition,    \* the binaries in each build's rootfs
  volume,     \* the image-store in its release volume
  disk,       \* images/: what is there of each build in each form
  made,       \* locals `qcow_ok` and `zst_ok`: the forms that were made
  releases,   \* State.releases
  artifacts,  \* Release.artifacts: the forms a release advertises
  retiring,   \* the releases whose files a prune is removing
  flawed,     \* history: the builds one of whose steps, or whose prune, failed
  halfPruned  \* history: the releases whose prune died with the service

outputs == <<edition, volume, disk, made>>
record == <<releases, artifacts, retiring>>
mishapHistory == <<flawed, halfPruned>>
vars == <<harvestVars, outputs, record, mishapHistory>>

Forms == {"img", "qcow2", "raw.zst"}

Init ==
  /\ HarvestInit
  /\ edition = [b \in Builds |-> [x \in Binaries |-> 0]]
  /\ volume = [b \in Builds |-> {}]
  /\ disk = [b \in Builds |-> [f \in Forms |-> "none"]]
  /\ made = [b \in Builds |-> {}]
  /\ releases = {}
  /\ artifacts = [b \in Builds |-> {}]
  /\ retiring = {}
  /\ flawed = {}
  /\ halfPruned = {}

(* What a step of the pipeline proper leaves alone of Harvest's state. *)
rest == <<latest, inputs, directory, locals, history, faults>>

-----------------------------------------------------------------------------
(* Composing                                                               *)

ComposeEdition(b) ==
  /\ Goto(b, "edition", "volume")
  /\ edition' = [edition EXCEPT ![b] = layers]
  /\ UNCHANGED <<rest, mishaps, volume, disk, made, record, mishapHistory>>

(* image-volume copies the image-store byte for byte. *)
WrapVolume(b) ==
  /\ Goto(b, "volume", "boot")
  /\ volume' = [volume EXCEPT ![b] = store]
  /\ UNCHANGED <<rest, mishaps, edition, disk, made, record, mishapHistory>>

(* assemble_initramfs, whose three commands write working files only, and  *)
(* stormcos_install::bootimage::build.                                     *)
WriteRaw(b) ==
  /\ Goto(b, "boot", "qcow2")
  /\ disk' = [disk EXCEPT ![b]["img"] = "whole"]
  /\ UNCHANGED <<rest, mishaps, edition, volume, made, record, mishapHistory>>

(* Any of these steps fails, and with it the build. *)
StepFails(b) ==
  /\ pc[b] \in {"edition", "volume", "boot"}
  /\ pc' = [pc EXCEPT ![b] = "failed"]
  /\ Mishap
  /\ \/ UNCHANGED disk
     \/ pc[b] = "boot" /\ disk' = [disk EXCEPT ![b]["img"] = "partial"]
  /\ flawed' = flawed \cup {b}
  /\ UNCHANGED <<rest, edition, volume, made, record, halfPruned>>

-----------------------------------------------------------------------------
(* Publishable forms                                                       *)

Next_(f) == IF f = "qcow2" THEN "raw.zst" ELSE "drop"

(* qemu-img convert, then zstd, each from the raw image. *)
Convert(b, f) ==
  /\ Goto(b, f, Next_(f))
  /\ disk' = [disk EXCEPT ![b][f] = "whole"]
  /\ made' = [made EXCEPT ![b] = @ \cup {f}]
  /\ UNCHANGED <<rest, mishaps, edition, volume, record, mishapHistory>>

ConvertFails(b, f) ==
  /\ Goto(b, f, Next_(f))
  /\ Mishap
  /\ \/ UNCHANGED disk
     \/ disk' = [disk EXCEPT ![b][f] = "partial"]
  /\ flawed' = flawed \cup {b}
  /\ UNCHANGED <<rest, edition, volume, made, record, halfPruned>>

(* The raw image goes "once both publishable forms exist". *)
DropRaw_Either(b) ==
  /\ Goto(b, "drop", "measure")
  /\ disk' = [disk EXCEPT ![b]["img"] = "none"]
  /\ UNCHANGED <<rest, mishaps, edition, volume, made, record, mishapHistory>>
DropRaw(b) ==
  /\ Goto(b, "drop", "measure")
  /\ disk' = IF made[b] = {"qcow2", "raw.zst"}
               THEN [disk EXCEPT ![b]["img"] = "none"] ELSE disk
  /\ UNCHANGED <<rest, mishaps, edition, volume, made, record, mishapHistory>>

CannotDropRaw(b) ==
  /\ Goto(b, "drop", "measure")
  /\ made[b] = {"qcow2", "raw.zst"}
  /\ Mishap
  /\ flawed' = flawed \cup {b}
  /\ UNCHANGED <<rest, outputs, record, halfPruned>>

(* artifact(): the size and the checksum of each form there is. *)
Shipped_NeverRaw(b) == made[b]
Shipped(b) == IF made[b] = {} THEN {"img"} ELSE made[b]

(* The closing mutate of build() in jobs.rs. *)
Register(b) ==
  /\ Goto(b, "measure", "done")
  /\ releases' = releases \cup {b}
  /\ artifacts' = [artifacts EXCEPT ![b] = Shipped(b)]
  /\ made' = [made EXCEPT ![b] = {}]
  /\ UNCHANGED <<rest, mishaps, edition, volume, disk, retiring, mishapHistory>>

CannotMeasure(b) ==
  /\ Goto(b, "measure", "failed")
  /\ Mishap
  /\ flawed' = flawed \cup {b}
  /\ made' = [made EXCEPT ![b] = {}]
  /\ UNCHANGED <<rest, edition, volume, disk, record, halfPruned>>

-----------------------------------------------------------------------------
(* prune_old_releases: once there is another release of the flavor, first  *)
(* the advertised files go, then the record.                               *)

Retire(r) ==
  /\ r \in releases \ retiring
  /\ releases \ retiring # {r}
  /\ retiring' = retiring \cup {r}
  /\ UNCHANGED <<harvestVars, outputs, releases, artifacts, mishapHistory>>

RemoveFile(r, f) ==
  /\ r \in retiring /\ f \in artifacts[r] /\ disk[r][f] # "none"
  /\ disk' = [disk EXCEPT ![r][f] = "none"]
  /\ UNCHANGED <<harvestVars, edition, volume, made, record, mishapHistory>>

Forget_Early(r) ==
  /\ r \in retiring
  /\ releases' = releases \ {r}
  /\ retiring' = retiring \ {r}
  /\ artifacts' = [artifacts EXCEPT ![r] = {}]
  /\ UNCHANGED <<harvestVars, outputs, mishapHistory>>
Forget(r) ==
  /\ r \in retiring
  /\ IF \A f \in artifacts[r] : disk[r][f] = "none"
       THEN UNCHANGED <<mishaps, mishapHistory>>
       ELSE /\ Mishap
            /\ flawed' = flawed \cup {r}
            /\ UNCHANGED halfPruned
  /\ releases' = releases \ {r}
  /\ retiring' = retiring \ {r}
  /\ artifacts' = [artifacts EXCEPT ![r] = {}]
  /\ UNCHANGED <<rest, pc, outputs>>

-----------------------------------------------------------------------------
(* The service dies: so do its builds and prunes, with what they were      *)
(* writing half written; the next process has a directory of its own.      *)
Running == {b \in Builds : pc[b] \notin {"idle", "done", "failed", "dead"}}

Crash ==
  /\ Mishap
  /\ pc' = [b \in Builds |-> IF b \in Running THEN "dead" ELSE pc[b]]
  /\ flawed' = flawed \cup Running
  /\ spoilt' = (spoilt \/ \E b \in Builds : pc[b] = "storing")
  /\ exists' = FALSE /\ tree' = {} /\ assets' = {} /\ unpacked' = {}
  /\ todo' = [b \in Builds |-> {}]
  /\ tag' = [b \in Builds |-> <<>>]
  /\ left' = [b \in Builds |-> {}]
  /\ copied' = [b \in Builds |-> <<>>]
  /\ dirty' = [b \in Builds |-> FALSE]
  /\ packed' = [b \in Builds |-> {}]
  /\ made' = [b \in Builds |-> {}]
  /\ retiring' = {}
  /\ halfPruned' = halfPruned \cup retiring
  /\ disk' = [b \in Builds |-> [f \in Forms |->
       IF (pc[b] = "boot" /\ f = "img") \/ pc[b] = f THEN "partial" ELSE disk[b][f]]]
  /\ UNCHANGED <<latest, inputs, history, met, edition, volume, releases, artifacts>>

PipelineStep(b) ==
  \/ ComposeEdition(b) \/ WrapVolume(b) \/ WriteRaw(b)
  \/ StepFails(b)
  \/ \E f \in {"qcow2", "raw.zst"} : Convert(b, f) \/ ConvertFails(b, f)
  \/ DropRaw(b) \/ CannotDropRaw(b) \/ Register(b) \/ CannotMeasure(b)

Next ==
  \/ \E c \in Components : Publish(c) /\ UNCHANGED <<outputs, record, mishapHistory>>
  \/ \E b \in Builds :
       \/ BeginHarvest(b) /\ UNCHANGED <<outputs, record, mishapHistory>>
       \/ HarvestStep(b) /\ UNCHANGED <<outputs, record, mishapHistory>>
       \/ PipelineStep(b)
       \/ Retire(b) \/ Forget(b) \/ \E f \in Forms : RemoveFile(b, f)
  \/ Crash

Spec == Init /\ [][Next]_vars

-----------------------------------------------------------------------------
(* Properties                                                              *)

(* The type invariant: each variable has its type, and a release is        *)
(* registered with at least one artifact.                                  *)
TypeOK ==
  /\ HarvestTypeOK
  /\ pc \in [Builds -> Harvesting \cup
               {"idle", "edition", "volume", "boot", "qcow2",
                "raw.zst", "drop", "measure", "done", "failed", "dead"}]
  /\ edition \in [Builds -> [Binaries -> Nat \cup {Torn}]]
  /\ volume \in [Builds -> {Torn} \cup SUBSET ((Images \cup Kept) \X Nat)]
  /\ disk \in [Builds -> [Forms -> {"none", "partial", "whole"}]]
  /\ made \in [Builds -> SUBSET {"qcow2", "raw.zst"}]
  /\ artifacts \in [Builds -> SUBSET Forms]
  /\ releases = {b \in Builds : artifacts[b] # {}}
  /\ retiring \subseteq releases
  /\ flawed \subseteq Builds
  /\ halfPruned \subseteq Builds

(* "images we don't harvest survive": what was staged by hand is in every  *)
(* volume, however many harvests have rebuilt the image-store, with assets *)
(* missing, downloads failing and harvests broken off anywhere -- until    *)
(* two of them meet, one cannot seed its store or a copy over image_store  *)
(* is cut short, which lose images for good.                               *)
Staged == (Images \cup Kept) \X {0}
HasStore == {b \in Builds : volume[b] # {}}
KeptSurvive ==
  ~spoilt => \A b \in HasStore : volume[b] # Torn /\ Staged \subseteq volume[b]

(* A component's release flows into the next image: what was the latest    *)
(* release when a build began (or a later one) is in its rootfs and its    *)
(* image-store, all of it and of one version, unless the build's log says  *)
(* it went without, or another build used the inputs with it; whatever     *)
(* earlier builds that met, failed or died have left there.  Agents that   *)
(* ship a binary another one ships too overwrite each other's.             *)
Own(a) == \A c \in Agents \ {a} : BinariesOf[a] \cap BinariesOf[c] = {}
Recent(b, c) == asked[b][c] .. latest[c]
LatestComposed ==
  \A b \in HasStore \ met :
    /\ \A a \in Agents \ missed[b] :
         Own(a) => \E v \in Recent(b, a) :
                     \A x \in BinariesOf[a] : edition[b][x] = v
    /\ \A i \in Images \ missed[b] :
         volume[b] # Torn /\ \E v \in Recent(b, i) : <<i, v>> \in volume[b]

(* Each artifact a release advertises is there and whole until a prune of  *)
(* it begins: no failed conversion, dropped raw image, restart or prune of *)
(* another release takes one away or leaves half of one.                   *)
AdvertisedWhole ==
  \A r \in releases \ (retiring \cup halfPruned) :
    \A f \in artifacts[r] : disk[r][f] = "whole"

(* images/ does not fill up as long as nothing fails: a file there belongs *)
(* to a build that is running or is advertised by a release, or a step of  *)
(* its build or of its prune has failed.                                   *)
Accounted ==
  \A b \in Builds, f \in Forms :
    disk[b][f] # "none" =>
      b \in Running \/ (b \in releases /\ f \in artifacts[b]) \/ b \in flawed

-----------------------------------------------------------------------------
(* What comments and scripts say, and the code does not do.                *)

(* "images we don't harvest survive", without exception. *)
StagedSurvive == \A b \in HasStore : volume[b] = Torn \/ Staged \subseteq volume[b]

(* release_image_arg: a file of images/, or the target to boot from.       *)
ReleaseImageArg(r, boot) ==
  IF boot = "local-disk" THEN [release |-> r, form |-> "img"]
  ELSE [release |-> r, scheme |-> boot]

(* scripts/provision-cluster.sh: "local-disk  <image> is the release qcow2 *)
(* (on this host)", and it exits when there is no such file: the file main *)
(* names is one of the release's artifacts.                                *)
LocalDiskFound ==
  \A r \in releases :
    LET image == ReleaseImageArg(r, "local-disk")
    IN image.form \in artifacts[image.release]

=============================================================================
