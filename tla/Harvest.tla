------------------------------ MODULE Harvest ------------------------------
(***************************************************************************)
(* Harvesting the build inputs (pipeline.rs `refresh_inputs`): before it   *)
(* composes, every build downloads each component's latest release asset   *)
(* and refreshes the inputs in place, which all builds share: the binaries *)
(* of the edition layer from the agents' RPMs, the image-store from the    *)
(* images' archives, through a directory named after the process, which    *)
(* the builds of a process share too.                                      *)
(*                                                                         *)
(* A step is one await (a lookup, a download, an external command) or one  *)
(* copy over a shared file, which has a first half, after which the file   *)
(* is torn, and a second.  A version is the number of a release; 0 is what *)
(* was staged by hand.  Components are gone through in any order, which    *)
(* covers each order of the configuration.  Only builds of one process are *)
(* modelled, until it dies; what it leaves in /tmp is nobody's.            *)
(***************************************************************************)
EXTENDS Naturals

CONSTANTS
  Builds,
  Agents,       \* harvestable components of kind "agent"
  BinariesOf,   \* Harvest.binaries of each
  Images,       \* harvestable components of kind "image"
  Kept,         \* the other images of the image-store
  Torn,         \* a file somebody truncated and has not filled
  Released,     \* the release of each component there is at first
  MaxVersion,   \* bound: the releases of each component
  MaxMishaps    \* bound: failures and deaths of the process

Components == Agents \cup Images
Binaries == UNION {BinariesOf[a] : a \in Agents}

ASSUME KindAssumption == Agents \cap Images = {} /\ Images \cap Kept = {}
ASSUME TornAssumption == Torn \notin Nat
ASSUME ReleasedAssumption == Released \in [Components -> Nat]
ASSUME HarvestBounds == MaxVersion \in [Components -> Nat] /\ MaxMishaps \in Nat

VARIABLES
  latest,     \* GitHub: the latest release of each component
  layers,     \* the version of each binary in the edition layer
  store,      \* the tagged images in image_store
  exists,     \* whether the harvest directory is there
  tree,       \* ... and the images in its store/
  assets,     \* ... the assets, <<component, version>>
  unpacked,   \* ... and the unpacked agents in it
  pc,         \* where each build is
  todo,       \* the components it has still to harvest
  tag,        \* the release it is harvesting: <<component, version>>
  left,       \* the binaries of that agent it has still to copy
  copied,     \* what a copy under way is filling: <<binary, version>>
  dirty,      \* local `store_dirty`
  packed,     \* the images in its new_store
  mishaps,
  asked,      \* history: the latest releases when the build began
  missed,     \* history: the components the build's log says it went without
  met,        \* history: the builds that shared the inputs with another one
  spoilt      \* history: builds did, the store could not be seeded from
              \* image_store, or the copy over image_store was cut short

inputs == <<layers, store>>
directory == <<exists, tree, assets, unpacked>>
locals == <<todo, tag, left, copied, dirty, packed>>
history == <<asked, missed>>
faults == <<met, spoilt>>
harvestVars == <<latest, inputs, directory, pc, locals, mishaps, history, faults>>

HarvestInit ==
  /\ latest = Released
  /\ layers = [x \in Binaries |-> 0]
  /\ store = (Images \cup Kept) \X {0}
  /\ exists = FALSE
  /\ tree = {}
  /\ assets = {}
  /\ unpacked = {}
  /\ pc = [b \in Builds |-> "idle"]
  /\ todo = [b \in Builds |-> {}]
  /\ tag = [b \in Builds |-> <<>>]
  /\ left = [b \in Builds |-> {}]
  /\ copied = [b \in Builds |-> <<>>]
  /\ dirty = [b \in Builds |-> FALSE]
  /\ packed = [b \in Builds |-> {}]
  /\ mishaps = 0
  /\ asked = [b \in Builds |-> [c \in Components |-> 0]]
  /\ missed = [b \in Builds |-> {}]
  /\ met = {}
  /\ spoilt = FALSE

Goto(b, from, to) == pc[b] = from /\ pc' = [pc EXCEPT ![b] = to]
Mishap == mishaps < MaxMishaps /\ mishaps' = mishaps + 1

Harvesting == {"seed", "harvest", "found", "got", "copy", "copying", "pack",
               "storing", "clean"}

(* The builds that read or write the inputs. *)
Using == {b \in Builds : pc[b] \in Harvesting \cup {"edition", "volume"}}

-----------------------------------------------------------------------------
(* A component is released. *)
Publish(c) ==
  /\ latest[c] < MaxVersion[c]
  /\ latest' = [latest EXCEPT ![c] = @ + 1]
  /\ UNCHANGED <<inputs, directory, pc, locals, mishaps, history, faults>>

(* The directory is removed and made again, whoever else is in it. *)
BeginHarvest(b) ==
  /\ Goto(b, "idle", "seed")
  /\ exists' = TRUE /\ tree' = {} /\ assets' = {} /\ unpacked' = {}
  /\ todo' = [todo EXCEPT ![b] = Components]
  /\ asked' = [asked EXCEPT ![b] = latest]
  /\ met' = IF Using = {} THEN met ELSE met \cup Using \cup {b}
  /\ spoilt' = (spoilt \/ Using # {})
  /\ UNCHANGED <<latest, inputs, tag, left, copied, dirty, packed, mishaps, missed>>

(* mount, cp -a and umount, three commands that touch the directory only   *)
(* and are one step here; none of their failures is looked at.             *)
Seed_Unmounted(b) ==
  /\ Goto(b, "seed", "harvest")
  /\ UNCHANGED <<latest, inputs, directory, locals, mishaps, history, faults>>
Seed(b) ==
  /\ Goto(b, "seed", "harvest")
  /\ tree' = IF exists /\ store # Torn THEN tree \cup store ELSE tree
  /\ UNCHANGED <<latest, inputs, exists, assets, unpacked, locals, mishaps,
                 history, faults>>

(* The mount fails, or cp does after some of the images.                   *)
CannotSeed(b) ==
  /\ Goto(b, "seed", "harvest")
  /\ Mishap
  /\ \E part \in SUBSET (IF exists /\ store # Torn THEN store ELSE {}) :
       tree' = tree \cup part
  /\ spoilt' = TRUE
  /\ UNCHANGED <<latest, inputs, exists, assets, unpacked, locals, history, met>>

(* latest_release_asset: the one that matches, of the latest release. *)
HasAsset(c) == latest[c] # 0

Lookup(b, c) ==
  /\ Goto(b, "harvest", "found")
  /\ c \in todo[b] /\ HasAsset(c)
  /\ todo' = [todo EXCEPT ![b] = @ \ {c}]
  /\ tag' = [tag EXCEPT ![b] = <<c, latest[c]>>]
  /\ UNCHANGED <<latest, inputs, directory, left, copied, dirty, packed,
                 mishaps, history, faults>>

(* There is no release, or the lookup fails: a line in the log, and the    *)
(* next component.                                                         *)
Skip(b, c) ==
  /\ pc[b] = "harvest" /\ c \in todo[b]
  /\ IF HasAsset(c) THEN Mishap ELSE UNCHANGED mishaps
  /\ todo' = [todo EXCEPT ![b] = @ \ {c}]
  /\ missed' = [missed EXCEPT ![b] = @ \cup {c}]
  /\ UNCHANGED <<latest, inputs, directory, pc, tag, left, copied, dirty,
                 packed, asked, faults>>

(* download_asset writes over what the file held. *)
Download(b) ==
  /\ Goto(b, "found", "got")
  /\ exists
  /\ assets' = {a \in assets : a[1] # tag[b][1]} \cup {tag[b]}
  /\ UNCHANGED <<latest, inputs, exists, tree, unpacked, locals, mishaps,
                 history, faults>>

(* The same when the download fails, as it must without the directory.     *)
DownloadFails(b) ==
  /\ Goto(b, "found", "harvest")
  /\ IF exists THEN Mishap ELSE UNCHANGED mishaps
  /\ tag' = [tag EXCEPT ![b] = <<>>]
  /\ missed' = [missed EXCEPT ![b] = @ \cup {tag[b][1]}]
  /\ UNCHANGED <<latest, inputs, directory, todo, left, copied, dirty, packed,
                 asked, faults>>

-----------------------------------------------------------------------------
(* kind = "agent"                                                          *)

(* rpm2cpio | cpio, of whatever the asset's file has in it now. *)
Unpack(b) ==
  /\ Goto(b, "got", "copy")
  /\ LET c == tag[b][1] IN
       /\ c \in Agents
       /\ \E a \in assets :
            /\ a[1] = c
            /\ unpacked' = {u \in unpacked : u[1] # c} \cup {a}
       /\ left' = [left EXCEPT ![b] = BinariesOf[c]]
  /\ UNCHANGED <<latest, inputs, exists, tree, assets, todo, tag, copied,
                 dirty, packed, mishaps, history, faults>>

(* fs::copy over the binary in the layer: truncate, then fill. *)
CopyBinary(b, x) ==
  /\ Goto(b, "copy", "copying")
  /\ x \in left[b]
  /\ \E u \in unpacked :
       /\ u[1] = tag[b][1]
       /\ copied' = [copied EXCEPT ![b] = <<x, u[2]>>]
  /\ layers' = [layers EXCEPT ![x] = Torn]
  /\ left' = [left EXCEPT ![b] = @ \ {x}]
  /\ UNCHANGED <<latest, store, directory, todo, tag, dirty, packed, mishaps,
                 history, faults>>

BinaryCopied(b) ==
  /\ Goto(b, "copying", "copy")
  /\ layers' = [layers EXCEPT ![copied[b][1]] = copied[b][2]]
  /\ copied' = [copied EXCEPT ![b] = <<>>]
  /\ UNCHANGED <<latest, store, directory, todo, tag, left, dirty, packed,
                 mishaps, history, faults>>

(* "binary not in rpm", because the release has it not or because somebody *)
(* removed the directory it was unpacked in.                               *)
SkipBinary(b, x) ==
  /\ pc[b] = "copy" /\ x \in left[b]
  /\ IF \E u \in unpacked : u[1] = tag[b][1] THEN Mishap ELSE UNCHANGED mishaps
  /\ left' = [left EXCEPT ![b] = @ \ {x}]
  /\ missed' = [missed EXCEPT ![b] = @ \cup {tag[b][1]}]
  /\ UNCHANGED <<latest, inputs, directory, pc, todo, tag, copied, dirty,
                 packed, asked, faults>>

EndAgent(b) ==
  /\ Goto(b, "copy", "harvest")
  /\ left[b] = {}
  /\ tag' = [tag EXCEPT ![b] = <<>>]
  /\ UNCHANGED <<latest, inputs, directory, todo, left, copied, dirty, packed,
                 mishaps, history, faults>>

-----------------------------------------------------------------------------
(* kind = "image"                                                          *)

(* skopeo copy *)
LoadImage_NotDirty(b) ==
  /\ Goto(b, "got", "harvest")
  /\ tag[b][1] \in Images
  /\ \E a \in assets : a[1] = tag[b][1]
  /\ tree' = tree \cup {tag[b]}
  /\ tag' = [tag EXCEPT ![b] = <<>>]
  /\ UNCHANGED <<latest, inputs, exists, assets, unpacked, todo, left, copied,
                 dirty, packed, mishaps, history, faults>>
LoadImage(b) ==
  /\ Goto(b, "got", "harvest")
  /\ tag[b][1] \in Images
  /\ \E a \in assets : a[1] = tag[b][1]
  /\ tree' = tree \cup {tag[b]}
  /\ dirty' = [dirty EXCEPT ![b] = TRUE]
  /\ tag' = [tag EXCEPT ![b] = <<>>]
  /\ UNCHANGED <<latest, inputs, exists, assets, unpacked, todo, left, copied,
                 packed, mishaps, history, faults>>

EndComponents(b) ==
  /\ Goto(b, "harvest", IF dirty[b] THEN "pack" ELSE "clean")
  /\ todo[b] = {}
  /\ UNCHANGED <<latest, inputs, directory, locals, mishaps, history, faults>>

(* mkfs.erofs, and the first half of the copy over image_store. *)
Pack(b) ==
  /\ Goto(b, "pack", "storing")
  /\ exists
  /\ packed' = [packed EXCEPT ![b] = tree]
  /\ store' = Torn
  /\ UNCHANGED <<latest, layers, directory, todo, tag, left, copied, dirty,
                 mishaps, history, faults>>

StoreCopied(b) ==
  /\ Goto(b, "storing", "clean")
  /\ store' = packed[b]
  /\ packed' = [packed EXCEPT ![b] = {}]
  /\ dirty' = [dirty EXCEPT ![b] = FALSE]
  /\ UNCHANGED <<latest, layers, directory, todo, tag, left, copied, mishaps,
                 history, faults>>

Clean(b) ==
  /\ Goto(b, "clean", "edition")
  /\ exists' = FALSE /\ tree' = {} /\ assets' = {} /\ unpacked' = {}
  /\ UNCHANGED <<latest, inputs, locals, mishaps, history, faults>>

-----------------------------------------------------------------------------
(* A `?` of refresh_inputs: what remains to be done, for this component    *)
(* and all the others, is left, and so is the directory; build() logs the  *)
(* error and goes on.  It must come to that when somebody has removed what *)
(* the step needs.                                                         *)
MustAbort(b) ==
  \/ pc[b] = "got" /\ ~\E a \in assets : a[1] = tag[b][1]
  \/ pc[b] = "pack" /\ ~exists

Unharvested(b) ==
  todo[b] \cup (IF tag[b] = <<>> THEN {} ELSE {tag[b][1]})
          \cup (IF dirty[b] THEN Images ELSE {})

Abort(b) ==
  /\ pc[b] \in {"seed", "got", "copy", "copying", "pack", "storing"}
  /\ pc' = [pc EXCEPT ![b] = "edition"]
  /\ IF MustAbort(b) THEN UNCHANGED mishaps ELSE Mishap
  /\ spoilt' = (spoilt \/ pc[b] = "storing")
  /\ missed' = [missed EXCEPT ![b] = @ \cup Unharvested(b)]
  /\ todo' = [todo EXCEPT ![b] = {}]
  /\ tag' = [tag EXCEPT ![b] = <<>>]
  /\ left' = [left EXCEPT ![b] = {}]
  /\ copied' = [copied EXCEPT ![b] = <<>>]
  /\ dirty' = [dirty EXCEPT ![b] = FALSE]
  /\ packed' = [packed EXCEPT ![b] = {}]
  /\ UNCHANGED <<latest, inputs, directory, asked, met>>

HarvestStep(b) ==
  \/ Seed(b) \/ CannotSeed(b)
  \/ \E c \in Components : Lookup(b, c) \/ Skip(b, c)
  \/ Download(b) \/ DownloadFails(b)
  \/ Unpack(b) \/ BinaryCopied(b) \/ EndAgent(b)
  \/ \E x \in Binaries : CopyBinary(b, x) \/ SkipBinary(b, x)
  \/ LoadImage(b) \/ EndComponents(b) \/ Pack(b) \/ StoreCopied(b)
  \/ Clean(b) \/ Abort(b)

-----------------------------------------------------------------------------
HarvestTypeOK ==
  /\ latest \in [Components -> Nat]
  /\ layers \in [Binaries -> Nat \cup {Torn}]
  /\ store \in {Torn} \cup SUBSET ((Images \cup Kept) \X Nat)
  /\ exists \in BOOLEAN
  /\ tree \subseteq (Images \cup Kept) \X Nat
  /\ assets \subseteq Components \X Nat
  /\ unpacked \subseteq Agents \X Nat
  /\ todo \in [Builds -> SUBSET Components]
  /\ tag \in [Builds -> {<<>>} \cup (Components \X Nat)]
  /\ left \in [Builds -> SUBSET Binaries]
  /\ copied \in [Builds -> {<<>>} \cup (Binaries \X Nat)]
  /\ dirty \in [Builds -> BOOLEAN]
  /\ packed \in [Builds -> SUBSET ((Images \cup Kept) \X Nat)]
  /\ mishaps \in Nat
  /\ asked \in [Builds -> [Components -> Nat]]
  /\ missed \in [Builds -> SUBSET Components]
  /\ met \subseteq Builds
  /\ spoilt \in BOOLEAN

=============================================================================
