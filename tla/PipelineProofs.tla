--------------------------- MODULE PipelineProofs ---------------------------
(***************************************************************************)
(* Theorems about Harvest and Pipeline, for any builds, components, kept   *)
(* images, releases and failures.                                          *)
(***************************************************************************)
EXTENDS Pipeline, TLAPS

-----------------------------------------------------------------------------
(* The type invariant                                                      *)

(* A build that has found an asset knows whose; one that copies knows what. *)
Held ==
  \A b \in Builds :
    /\ pc[b] \in {"found", "got", "copy", "copying"} => tag[b] \in Components \X Nat
    /\ pc[b] = "copying" => copied[b] \in Binaries \X Nat

Stages == Harvesting \cup {"idle", "edition", "volume", "boot", "qcow2",
            "raw.zst", "drop", "measure", "done", "failed", "dead"}

ComposedOK ==
  /\ edition \in [Builds -> [Binaries -> Nat \cup {Torn}]]
  /\ volume \in [Builds -> {Torn} \cup SUBSET ((Images \cup Kept) \X Nat)]

DiskOK ==
  /\ disk \in [Builds -> [Forms -> {"none", "partial", "whole"}]]
  /\ made \in [Builds -> SUBSET {"qcow2", "raw.zst"}]

RecordOK ==
  /\ artifacts \in [Builds -> SUBSET Forms]
  /\ releases = {b \in Builds : artifacts[b] # {}}
  /\ retiring \subseteq releases
  /\ flawed \subseteq Builds
  /\ halfPruned \subseteq Builds

OutputTypeOK == ComposedOK /\ DiskOK /\ RecordOK

Typed == HarvestTypeOK /\ pc \in [Builds -> Stages] /\ Held /\ OutputTypeOK

LEMMA TypedInit == Init => Typed
<1> SUFFICES ASSUME Init PROVE Typed
  OBVIOUS
<1>1. /\ latest \in [Components -> Nat]
      /\ layers \in [Binaries -> Nat \cup {Torn}]
  BY ReleasedAssumption DEF Init, HarvestInit
<1>2. store \in {Torn} \cup SUBSET ((Images \cup Kept) \X Nat)
  BY DEF Init, HarvestInit
<1>3. /\ exists \in BOOLEAN /\ tree = {} /\ assets = {} /\ unpacked = {}
      /\ todo \in [Builds -> SUBSET Components]
      /\ left \in [Builds -> SUBSET Binaries]
      /\ dirty \in [Builds -> BOOLEAN]
      /\ packed \in [Builds -> SUBSET ((Images \cup Kept) \X Nat)]
  BY DEF Init, HarvestInit
<1>4. /\ mishaps \in Nat
      /\ asked \in [Builds -> [Components -> Nat]]
      /\ missed \in [Builds -> SUBSET Components]
      /\ met \subseteq Builds
      /\ spoilt \in BOOLEAN
  BY DEF Init, HarvestInit
<1>5. /\ tag \in [Builds -> {<<>>} \cup (Components \X Nat)]
      /\ copied \in [Builds -> {<<>>} \cup (Binaries \X Nat)]
  BY DEF Init, HarvestInit
<1>6. pc \in [Builds -> Stages] /\ Held
  BY DEF Init, HarvestInit, Stages, Held
<1>7. OutputTypeOK
  BY DEF Init, OutputTypeOK, ComposedOK, DiskOK, RecordOK
<1> QED
  BY <1>1, <1>2, <1>3, <1>4, <1>5, <1>6, <1>7 DEF Typed, HarvestTypeOK

LEMMA ItsBinaries == \A a \in Agents : BinariesOf[a] \subseteq Binaries
BY DEF Binaries

(* The steps of a harvest. *)
LEMMA HarvestTyped ==
  ASSUME Typed, NEW b \in Builds, HarvestStep(b)
  PROVE  HarvestTypeOK' /\ pc' \in [Builds -> Stages] /\ Held'
<1> USE DEF Typed, HarvestTypeOK, Held, Goto, Stages, Harvesting, inputs,
            directory, locals, history, faults
<1> DEFINE Goal == HarvestTypeOK' /\ pc' \in [Builds -> Stages] /\ Held'
<1>1. CASE Seed(b)
  BY <1>1 DEF Seed
<1>2. CASE CannotSeed(b)
  <2>1. tree' \subseteq (Images \cup Kept) \X Nat
    BY <1>2 DEF CannotSeed
  <2> QED
    BY <1>2, <2>1 DEF CannotSeed, Mishap
<1>3. ASSUME NEW c \in Components, Lookup(b, c) \/ Skip(b, c) PROVE Goal
  <2>1. CASE Lookup(b, c)
    <3>1. <<c, latest[c]>> \in Components \X Nat
      OBVIOUS
    <3> QED
      BY <2>1, <3>1 DEF Lookup
  <2>2. CASE Skip(b, c)
    <3>1. /\ missed' \in [Builds -> SUBSET Components]
          /\ todo' \in [Builds -> SUBSET Components]
      BY <2>2 DEF Skip
    <3>2. mishaps' \in Nat
      BY <2>2 DEF Skip, Mishap
    <3> QED
      BY <2>2, <3>1, <3>2 DEF Skip
  <2> QED
    BY <1>3, <2>1, <2>2
<1>4. CASE Download(b) \/ DownloadFails(b)
  <2>1. pc[b] = "found" /\ tag[b] \in Components \X Nat /\ tag[b][1] \in Components
    BY <1>4 DEF Download, DownloadFails
  <2>2. CASE Download(b)
    <3>1. assets' \subseteq Components \X Nat
      BY <2>1, <2>2 DEF Download
    <3> QED
      BY <2>1, <2>2, <3>1 DEF Download
  <2>3. CASE DownloadFails(b)
    <3>1. missed' \in [Builds -> SUBSET Components]
      BY <2>1, <2>3 DEF DownloadFails
    <3>2. mishaps' \in Nat
      BY <2>3 DEF DownloadFails, Mishap
    <3> QED
      BY <2>3, <3>1, <3>2 DEF DownloadFails
  <2> QED
    BY <1>4, <2>2, <2>3
<1>5. CASE Unpack(b)
  BY <1>5, ItsBinaries DEF Unpack
<1>6. ASSUME NEW x \in Binaries, CopyBinary(b, x) PROVE Goal
  BY <1>6 DEF CopyBinary
<1>7. CASE BinaryCopied(b)
  BY <1>7 DEF BinaryCopied
<1>8. ASSUME NEW x \in Binaries, SkipBinary(b, x) PROVE Goal
  <2>1. mishaps' \in Nat
    BY <1>8 DEF SkipBinary, Mishap
  <2> QED
    BY <1>8, <2>1 DEF SkipBinary
<1>9. CASE EndAgent(b)
  BY <1>9 DEF EndAgent
<1>10. CASE LoadImage(b)
  BY <1>10 DEF LoadImage
<1>11. CASE EndComponents(b)
  BY <1>11 DEF EndComponents
<1>12. CASE Pack(b)
  BY <1>12 DEF Pack
<1>13. CASE StoreCopied(b)
  BY <1>13 DEF StoreCopied
<1>14. CASE Clean(b)
  BY <1>14 DEF Clean
<1>15. CASE Abort(b)
  <2>1. Unharvested(b) \subseteq Components
    <3>1. tag[b] # <<>> => tag[b] \in Components \X Nat
      OBVIOUS
    <3> QED
      BY <3>1 DEF Unharvested, Components
  <2>2. missed' \in [Builds -> SUBSET Components]
    BY <1>15, <2>1 DEF Abort
  <2>3. pc' = [pc EXCEPT ![b] = "edition"]
    BY <1>15 DEF Abort
  <2>4. /\ todo' = [todo EXCEPT ![b] = {}]
        /\ tag' = [tag EXCEPT ![b] = <<>>]
        /\ left' = [left EXCEPT ![b] = {}]
        /\ copied' = [copied EXCEPT ![b] = <<>>]
        /\ dirty' = [dirty EXCEPT ![b] = FALSE]
        /\ packed' = [packed EXCEPT ![b] = {}]
    BY <1>15 DEF Abort
  <2>5. /\ mishaps' \in Nat /\ spoilt' \in BOOLEAN
        /\ UNCHANGED <<latest, inputs, directory, asked, met>>
    BY <1>15 DEF Abort, Mishap
  <2>6. HarvestTypeOK'
    BY <2>2, <2>4, <2>5
  <2> QED
    BY <2>3, <2>4, <2>6
<1> QED
  BY <1>1, <1>2, <1>3, <1>4, <1>5, <1>6, <1>7, <1>8, <1>9, <1>10, <1>11,
     <1>12, <1>13, <1>14, <1>15 DEF HarvestStep

(* The steps of the pipeline proper, of a prune, and the rest. *)
LEMMA TypedStep == Typed /\ [Next]_vars => Typed'
<1> SUFFICES ASSUME Typed, [Next]_vars PROVE Typed'
  OBVIOUS
<1> USE DEF harvestVars, outputs, record, mishapHistory, rest, inputs,
            directory, locals, history, faults
<1>1. ASSUME UNCHANGED <<outputs, record, mishapHistory>> PROVE OutputTypeOK'
  BY <1>1 DEF Typed, OutputTypeOK, ComposedOK, DiskOK, RecordOK
(* A step that leaves what the harvest holds. *)
<1>2. ASSUME UNCHANGED rest, mishaps' \in Nat, NEW b \in Builds,
             \E s \in Stages \ {"found", "got", "copy", "copying"} :
               pc' = [pc EXCEPT ![b] = s],
             OutputTypeOK'
      PROVE  Typed'
  BY <1>2 DEF Typed, HarvestTypeOK, Held
<1>3. ASSUME UNCHANGED <<rest, pc>>, mishaps' \in Nat
      PROVE  HarvestTypeOK' /\ pc' \in [Builds -> Stages] /\ Held'
  BY <1>3 DEF Typed, HarvestTypeOK, Held
<1>4. mishaps \in Nat /\ (Mishap => mishaps' \in Nat)
  BY DEF Typed, HarvestTypeOK, Mishap
<1>5. ASSUME NEW c \in Components, Publish(c),
             UNCHANGED <<outputs, record, mishapHistory>>
      PROVE  Typed'
  BY <1>1, <1>5 DEF Typed, Publish, HarvestTypeOK, Held
<1>6. ASSUME NEW b \in Builds, BeginHarvest(b),
             UNCHANGED <<outputs, record, mishapHistory>>
      PROVE  Typed'
  <2>1. OutputTypeOK'
    BY <1>1, <1>6
  <2>2. pc' \in [Builds -> Stages] /\ Held'
    BY <1>6 DEF Typed, BeginHarvest, Goto, Stages, Harvesting, Held
  <2>3. met' \subseteq Builds /\ spoilt' \in BOOLEAN
    BY <1>6 DEF Typed, BeginHarvest, HarvestTypeOK, Using
  <2>4. /\ todo' \in [Builds -> SUBSET Components]
        /\ asked' \in [Builds -> [Components -> Nat]]
    BY <1>6 DEF Typed, BeginHarvest, HarvestTypeOK
  <2>5. HarvestTypeOK'
    BY <1>6, <2>3, <2>4 DEF Typed, BeginHarvest, HarvestTypeOK
  <2> QED
    BY <2>1, <2>2, <2>5 DEF Typed
<1>7. ASSUME NEW b \in Builds, HarvestStep(b),
             UNCHANGED <<outputs, record, mishapHistory>>
      PROVE  Typed'
  BY <1>1, <1>7, HarvestTyped DEF Typed
<1>8. ASSUME NEW b \in Builds, ComposeEdition(b) \/ WrapVolume(b) \/ WriteRaw(b)
      PROVE  Typed'
  <2>1. OutputTypeOK'
    <3>1. ComposedOK'
      <4>1. CASE ComposeEdition(b)
        BY <4>1 DEF ComposeEdition, Typed, HarvestTypeOK, OutputTypeOK, ComposedOK
      <4>2. CASE WrapVolume(b)
        BY <4>2 DEF WrapVolume, Typed, HarvestTypeOK, OutputTypeOK, ComposedOK
      <4>3. CASE WriteRaw(b)
        BY <4>3 DEF WriteRaw, Typed, OutputTypeOK, ComposedOK
      <4> QED
        BY <1>8, <4>1, <4>2, <4>3
    <3>2. DiskOK'
      BY <1>8 DEF ComposeEdition, WrapVolume, WriteRaw, Typed, OutputTypeOK,
         DiskOK, Forms
    <3>3. RecordOK'
      BY <1>8 DEF ComposeEdition, WrapVolume, WriteRaw, Typed, OutputTypeOK,
         RecordOK
    <3> QED
      BY <3>1, <3>2, <3>3 DEF OutputTypeOK
  <2>2. UNCHANGED rest /\ mishaps' \in Nat
    BY <1>4, <1>8 DEF ComposeEdition, WrapVolume, WriteRaw
  <2>3. \E s \in Stages \ {"found", "got", "copy", "copying"} : pc' = [pc EXCEPT ![b] = s]
    BY <1>8 DEF ComposeEdition, WrapVolume, WriteRaw, Goto, Stages
  <2> QED
    BY <1>2, <2>1, <2>2, <2>3
<1>9. ASSUME NEW b \in Builds, StepFails(b) PROVE Typed'
  <2>1. OutputTypeOK'
    <3>1. ComposedOK'
      BY <1>9 DEF StepFails, Typed, OutputTypeOK, ComposedOK
    <3>2. DiskOK'
      BY <1>9 DEF StepFails, Typed, OutputTypeOK, DiskOK, Forms
    <3>3. RecordOK'
      BY <1>9 DEF StepFails, Typed, OutputTypeOK, RecordOK
    <3> QED
      BY <3>1, <3>2, <3>3 DEF OutputTypeOK
  <2>2. UNCHANGED rest /\ mishaps' \in Nat
    BY <1>4, <1>9 DEF StepFails
  <2>3. \E s \in Stages \ {"found", "got", "copy", "copying"} : pc' = [pc EXCEPT ![b] = s]
    BY <1>9 DEF StepFails, Goto, Stages
  <2> QED
    BY <1>2, <2>1, <2>2, <2>3
<1>10. ASSUME NEW b \in Builds, NEW f \in {"qcow2", "raw.zst"},
              Convert(b, f) \/ ConvertFails(b, f)
       PROVE  Typed'
  <2>1. OutputTypeOK'
    <3>1. ComposedOK'
      BY <1>10 DEF Convert, ConvertFails, Typed, OutputTypeOK, ComposedOK
    <3>2. DiskOK'
      BY <1>10 DEF Convert, ConvertFails, Typed, OutputTypeOK, DiskOK, Forms
    <3>3. RecordOK'
      BY <1>10 DEF Convert, ConvertFails, Typed, OutputTypeOK, RecordOK
    <3> QED
      BY <3>1, <3>2, <3>3 DEF OutputTypeOK
  <2>2. UNCHANGED rest /\ mishaps' \in Nat
    BY <1>4, <1>10 DEF Convert, ConvertFails
  <2>3. \E s \in Stages \ {"found", "got", "copy", "copying"} : pc' = [pc EXCEPT ![b] = s]
    BY <1>10 DEF Convert, ConvertFails, Goto, Stages, Next_
  <2> QED
    BY <1>2, <2>1, <2>2, <2>3
<1>11. ASSUME NEW b \in Builds, DropRaw(b) \/ CannotDropRaw(b) PROVE Typed'
  <2>1. OutputTypeOK'
    <3>1. ComposedOK'
      BY <1>11 DEF DropRaw, CannotDropRaw, Typed, OutputTypeOK, ComposedOK
    <3>2. DiskOK'
      BY <1>11 DEF DropRaw, CannotDropRaw, Typed, OutputTypeOK, DiskOK, Forms
    <3>3. RecordOK'
      BY <1>11 DEF DropRaw, CannotDropRaw, Typed, OutputTypeOK, RecordOK
    <3> QED
      BY <3>1, <3>2, <3>3 DEF OutputTypeOK
  <2>2. UNCHANGED rest /\ mishaps' \in Nat
    BY <1>4, <1>11 DEF DropRaw, CannotDropRaw
  <2>3. \E s \in Stages \ {"found", "got", "copy", "copying"} : pc' = [pc EXCEPT ![b] = s]
    BY <1>11 DEF DropRaw, CannotDropRaw, Goto, Stages
  <2> QED
    BY <1>2, <2>1, <2>2, <2>3
<1>12. ASSUME NEW b \in Builds, Register(b) \/ CannotMeasure(b) PROVE Typed'
  <2>1. Shipped(b) \in SUBSET Forms /\ Shipped(b) # {}
    BY DEF Shipped, Forms, Typed, OutputTypeOK, DiskOK
  <2>2. OutputTypeOK'
    <3>1. ComposedOK'
      BY <1>12 DEF Register, CannotMeasure, Typed, OutputTypeOK, ComposedOK
    <3>2. DiskOK'
      BY <1>12 DEF Register, CannotMeasure, Typed, OutputTypeOK, DiskOK, Forms
    <3>3. RecordOK'
      BY <1>12, <2>1 DEF Register, CannotMeasure, Typed, OutputTypeOK, RecordOK
    <3> QED
      BY <3>1, <3>2, <3>3 DEF OutputTypeOK
  <2>3. UNCHANGED rest /\ mishaps' \in Nat
    BY <1>4, <1>12 DEF Register, CannotMeasure
  <2>4. \E s \in Stages \ {"found", "got", "copy", "copying"} : pc' = [pc EXCEPT ![b] = s]
    BY <1>12 DEF Register, CannotMeasure, Goto, Stages
  <2> QED
    BY <1>2, <2>2, <2>3, <2>4
<1>13. ASSUME NEW r \in Builds, Retire(r) PROVE Typed'
  BY <1>3, <1>4, <1>13 DEF Retire, Typed, OutputTypeOK, ComposedOK, DiskOK, RecordOK
<1>14. ASSUME NEW r \in Builds, NEW f \in Forms, RemoveFile(r, f) PROVE Typed'
  BY <1>3, <1>4, <1>14 DEF RemoveFile, Typed, OutputTypeOK, ComposedOK, DiskOK, RecordOK
<1>15. ASSUME NEW r \in Builds, Forget(r) PROVE Typed'
  <2>1. OutputTypeOK'
    BY <1>15 DEF Forget, Typed, OutputTypeOK, ComposedOK, DiskOK, RecordOK
  <2> QED
    BY <1>3, <1>4, <1>15, <2>1 DEF Forget, Typed
<1>16. CASE Crash
  <2>1. OutputTypeOK'
    BY <1>16 DEF Crash, Typed, OutputTypeOK, ComposedOK, DiskOK, RecordOK, Running
  <2>2. HarvestTypeOK'
    BY <1>4, <1>16 DEF Crash, Typed, HarvestTypeOK
  <2>3. pc' \in [Builds -> Stages] /\ Held'
    BY <1>16 DEF Crash, Typed, Held, Stages, Running
  <2> QED
    BY <2>1, <2>2, <2>3 DEF Typed
<1>17. CASE UNCHANGED vars
  BY <1>1, <1>3, <1>4, <1>17 DEF vars, Typed
<1> QED
  BY <1>5, <1>6, <1>7, <1>8, <1>9, <1>10, <1>11, <1>12, <1>13, <1>14, <1>15,
     <1>16, <1>17 DEF Next, PipelineStep

(* Every reachable state is well typed, and every release has an artifact. *)
THEOREM TypeCorrect == Spec => []TypeOK
<1>1. Typed => TypeOK
  BY DEF Typed, TypeOK, OutputTypeOK, ComposedOK, DiskOK, RecordOK, Stages
<1> QED
  BY <1>1, TypedInit, TypedStep, PTL DEF Spec

-----------------------------------------------------------------------------
(* What is on disk                                                         *)

Early == Harvesting \cup {"idle", "edition", "volume", "boot"}
Both == {"qcow2", "raw.zst"}

(* Nothing is written before the boot image, which then stays until both   *)
(* compressed forms are there; what a build thinks it made it made.        *)
WrittenBy(b) ==
  /\ pc[b] \in Early => \A f \in Forms : disk[b][f] = "none"
  /\ pc[b] \notin {"raw.zst", "drop", "measure"} => made[b] = {}
  /\ \A f \in made[b] : disk[b][f] = "whole"
  /\ pc[b] = "raw.zst" => made[b] \subseteq {"qcow2"}
  /\ pc[b] \in {"qcow2", "raw.zst", "drop"} => disk[b]["img"] = "whole"
  /\ pc[b] = "measure" /\ made[b] = {} => disk[b]["img"] = "whole"

(* As long as nothing failed, both forms are made and the raw image goes. *)
SmoothlyBy(b) ==
  b \notin flawed =>
    /\ pc[b] \notin {"failed", "dead"}
    /\ pc[b] = "raw.zst" => made[b] = {"qcow2"}
    /\ pc[b] \in {"drop", "measure"} => made[b] = Both
    /\ pc[b] = "measure" => disk[b]["img"] = "none"

(* AdvertisedWhole and Accounted, of one build. *)
RecordOf(b) ==
  /\ b \in releases => pc[b] = "done"
  /\ b \in releases \ (retiring \cup halfPruned)
       => \A f \in artifacts[b] : disk[b][f] = "whole"
  /\ \A f \in Forms :
       disk[b][f] # "none" =>
         b \in Running \/ (b \in releases /\ f \in artifacts[b]) \/ b \in flawed

Fine(b) == WrittenBy(b) /\ SmoothlyBy(b) /\ RecordOf(b)

DiskInv == Typed /\ \A b \in Builds : Fine(b)

LEMMA DiskInit == Init => DiskInv
<1> SUFFICES ASSUME Init, NEW b \in Builds PROVE Fine(b)
  BY TypedInit DEF DiskInv
<1>1. WrittenBy(b)
  BY DEF Init, HarvestInit, WrittenBy, Forms
<1>2. SmoothlyBy(b) /\ RecordOf(b)
  BY DEF Init, HarvestInit, SmoothlyBy, RecordOf
<1> QED
  BY <1>1, <1>2 DEF Fine

(* A build whose files and record a step leaves alone, and that does not   *)
(* leave the stages in which nothing is written.                           *)
LEMMA Undisturbed ==
  ASSUME Typed, NEW b \in Builds, Fine(b),
         UNCHANGED <<disk[b], made[b], artifacts[b]>>,
         pc'[b] = pc[b] \/ (pc[b] \in Early /\ pc'[b] \in Early \ {"idle"}),
         releases' = releases, flawed' \cap {b} = flawed \cap {b},
         retiring \cup halfPruned \subseteq retiring' \cup halfPruned'
  PROVE  Fine(b)'
<1> USE DEF Early, Harvesting
<1>1. WrittenBy(b)'
  BY DEF Fine, WrittenBy
<1>2. SmoothlyBy(b)'
  BY DEF Fine, SmoothlyBy
<1>3. b \in Running => b \in Running'
  BY DEF Running
<1>4. RecordOf(b)'
  BY <1>3 DEF Fine, RecordOf
<1> QED
  BY <1>1, <1>2, <1>4 DEF Fine

LEMMA HarvestEarly ==
  ASSUME Typed, NEW b \in Builds, HarvestStep(b) \/ BeginHarvest(b)
  PROVE  /\ pc[b] \in Early
         /\ \E s \in Early \ {"idle"} : pc' = [pc EXCEPT ![b] = s] \/ pc' = pc
<1> USE DEF Early, Harvesting, Goto
<1>1. CASE BeginHarvest(b) \/ Seed(b) \/ CannotSeed(b) \/ Unpack(b)
  BY <1>1 DEF BeginHarvest, Seed, CannotSeed, Unpack
<1>2. ASSUME NEW c \in Components, Lookup(b, c) \/ Skip(b, c)
      PROVE  /\ pc[b] \in Early
             /\ \E s \in Early \ {"idle"} : pc' = [pc EXCEPT ![b] = s] \/ pc' = pc
  BY <1>2 DEF Lookup, Skip
<1>3. ASSUME NEW x \in Binaries, CopyBinary(b, x) \/ SkipBinary(b, x)
      PROVE  /\ pc[b] \in Early
             /\ \E s \in Early \ {"idle"} : pc' = [pc EXCEPT ![b] = s] \/ pc' = pc
  BY <1>3 DEF CopyBinary, SkipBinary
<1>4. CASE \/ Download(b) \/ DownloadFails(b) \/ BinaryCopied(b) \/ EndAgent(b)
           \/ LoadImage(b) \/ EndComponents(b)
  BY <1>4 DEF Download, DownloadFails, BinaryCopied, EndAgent, LoadImage,
     EndComponents
<1>5. CASE Pack(b) \/ StoreCopied(b) \/ Clean(b) \/ Abort(b)
  BY <1>5 DEF Pack, StoreCopied, Clean, Abort
<1> QED
  BY <1>1, <1>2, <1>3, <1>4, <1>5 DEF HarvestStep

LEMMA DiskStep == DiskInv /\ [Next]_vars => DiskInv'
<1> SUFFICES ASSUME DiskInv, [Next]_vars, NEW b \in Builds PROVE Fine(b)'
  BY TypedStep DEF DiskInv
<1> USE DEF harvestVars, outputs, record, mishapHistory
<1>1. Typed /\ Fine(b)
  BY DEF DiskInv
<1>2. ASSUME NEW c \in Components, Publish(c),
             UNCHANGED <<outputs, record, mishapHistory>>
      PROVE  Fine(b)'
  BY <1>1, <1>2, Undisturbed DEF Publish
<1>3. ASSUME NEW d \in Builds, HarvestStep(d) \/ BeginHarvest(d),
             UNCHANGED <<outputs, record, mishapHistory>>
      PROVE  Fine(b)'
  <2>1. pc'[b] = pc[b] \/ (pc[b] \in Early /\ pc'[b] \in Early \ {"idle"})
    BY <1>1, <1>3, HarvestEarly DEF Typed
  <2> QED
    BY <1>1, <1>3, <2>1, Undisturbed
(* A step of another build. *)
<1>4. ASSUME NEW d \in Builds \ {b}, PipelineStep(d) PROVE Fine(b)'
  <2>1. /\ pc'[b] = pc[b]
        /\ disk'[b] = disk[b] /\ made'[b] = made[b] /\ artifacts'[b] = artifacts[b]
        /\ b \in releases' <=> b \in releases
        /\ b \in flawed' <=> b \in flawed
        /\ UNCHANGED <<retiring, halfPruned>>
    BY <1>1, <1>4 DEF PipelineStep, ComposeEdition, WrapVolume, WriteRaw, StepFails,
       Convert, ConvertFails, DropRaw, CannotDropRaw, Register, CannotMeasure,
       Goto, Typed, OutputTypeOK, DiskOK, RecordOK
  <2> QED
    BY <1>1, <2>1 DEF Fine, WrittenBy, SmoothlyBy, RecordOf, Running
<1>5. CASE ComposeEdition(b) \/ WrapVolume(b)
  <2>1. pc[b] \in Early /\ pc'[b] \in Early \ {"idle"}
    BY <1>1, <1>5 DEF ComposeEdition, WrapVolume, Goto, Early, Typed
  <2> QED
    BY <1>1, <1>5, <2>1, Undisturbed DEF ComposeEdition, WrapVolume
<1>6. CASE WriteRaw(b)
  <2>1. pc[b] = "boot" /\ pc'[b] = "qcow2" /\ disk'[b]["img"] = "whole"
        /\ UNCHANGED <<made, releases, artifacts, retiring, flawed, halfPruned>>
    BY <1>1, <1>6 DEF WriteRaw, Goto, Typed, OutputTypeOK, DiskOK, Forms
  <2>2. b \in Running' /\ b \notin releases /\ made[b] = {}
    BY <1>1, <2>1 DEF Running, Fine, RecordOf, WrittenBy
  <2> QED
    BY <2>1, <2>2 DEF Fine, WrittenBy, SmoothlyBy, RecordOf, Early, Harvesting
<1>7. CASE StepFails(b)
  <2>1. /\ pc[b] \in {"edition", "volume", "boot"} /\ pc'[b] = "failed"
        /\ b \in flawed'
        /\ UNCHANGED <<made, releases, artifacts, retiring, halfPruned>>
    BY <1>1, <1>7 DEF StepFails, Typed
  <2>2. b \notin releases /\ made[b] = {}
    BY <1>1, <2>1 DEF Fine, RecordOf, WrittenBy
  <2> QED
    BY <2>1, <2>2 DEF Fine, WrittenBy, SmoothlyBy, RecordOf, Early, Harvesting
<1>8. ASSUME NEW f \in Both, Convert(b, f) PROVE Fine(b)'
  <2>1. /\ pc[b] = f /\ pc'[b] = Next_(f)
        /\ disk'[b] = [disk[b] EXCEPT ![f] = "whole"]
        /\ made'[b] = made[b] \cup {f}
        /\ UNCHANGED <<releases, artifacts, retiring, flawed, halfPruned>>
    BY <1>1, <1>8 DEF Convert, Goto, Typed, OutputTypeOK, DiskOK
  <2>2. /\ disk[b] \in [Forms -> {"none", "partial", "whole"}]
        /\ made[b] \subseteq Both
    BY <1>1 DEF Typed, OutputTypeOK, DiskOK, Both
  <2>3. WrittenBy(b)'
    BY <1>1, <2>1, <2>2 DEF Fine, WrittenBy, Both, Next_, Early, Harvesting, Forms
  <2>4. SmoothlyBy(b)'
    BY <1>1, <2>1, <2>2 DEF Fine, WrittenBy, SmoothlyBy, Both, Next_
  <2>5. RecordOf(b)'
    BY <1>1, <2>1 DEF Fine, RecordOf, Running, Both, Next_
  <2> QED
    BY <2>3, <2>4, <2>5 DEF Fine
<1>9. ASSUME NEW f \in Both, ConvertFails(b, f) PROVE Fine(b)'
  <2>1. /\ pc[b] = f /\ pc'[b] = Next_(f)
        /\ \A g \in Forms \ {f} : disk'[b][g] = disk[b][g]
        /\ b \in flawed'
        /\ UNCHANGED <<made, releases, artifacts, retiring, halfPruned>>
    BY <1>1, <1>9 DEF ConvertFails, Goto, Typed, OutputTypeOK, DiskOK
  <2>2. f \notin made[b]
    BY <1>1, <2>1 DEF Fine, WrittenBy, SmoothlyBy, Both
  <2>3. made[b] \subseteq Forms
    BY <1>1 DEF Typed, OutputTypeOK, DiskOK, Forms
  <2>4. WrittenBy(b)'
    BY <1>1, <2>1, <2>2, <2>3 DEF Fine, WrittenBy, Both, Next_, Early, Harvesting, Forms
  <2>5. SmoothlyBy(b)' /\ RecordOf(b)'
    BY <1>1, <2>1 DEF Fine, SmoothlyBy, RecordOf, Both, Next_
  <2> QED
    BY <2>4, <2>5 DEF Fine
<1>10. CASE DropRaw(b) \/ CannotDropRaw(b)
  <2>1. /\ pc[b] = "drop" /\ pc'[b] = "measure"
        /\ \A f \in Both : disk'[b][f] = disk[b][f]
        /\ made[b] # Both => disk'[b]["img"] = disk[b]["img"]
        /\ b \notin flawed' /\ made[b] = Both => disk'[b]["img"] = "none"
        /\ flawed \subseteq flawed'
        /\ UNCHANGED <<made, releases, artifacts, retiring, halfPruned>>
    BY <1>1, <1>10 DEF DropRaw, CannotDropRaw, Goto, Typed, OutputTypeOK, DiskOK,
       Both, Forms
  <2>2. made[b] \subseteq Both
    BY <1>1 DEF Typed, OutputTypeOK, DiskOK, Both
  <2>3. WrittenBy(b)' /\ SmoothlyBy(b)'
    BY <1>1, <2>1, <2>2 DEF Fine, WrittenBy, SmoothlyBy, Both, Early, Harvesting
  <2>4. b \in Running' /\ b \notin releases
    BY <1>1, <2>1 DEF Running, Fine, RecordOf
  <2> QED
    BY <2>1, <2>3, <2>4 DEF Fine, RecordOf
<1>11. CASE Register(b)
  <2>1. /\ pc[b] = "measure" /\ pc'[b] = "done"
        /\ releases' = releases \cup {b} /\ artifacts'[b] = Shipped(b)
        /\ made'[b] = {}
        /\ UNCHANGED <<disk, retiring, flawed, halfPruned>>
    BY <1>1, <1>11 DEF Register, Goto, Typed, OutputTypeOK, DiskOK, RecordOK
  <2>2. \A f \in Shipped(b) : disk[b][f] = "whole"
    BY <1>1, <2>1 DEF Fine, WrittenBy, Shipped
  <2>3. b \notin flawed => Shipped(b) = Both /\ disk[b]["img"] = "none"
    BY <1>1, <2>1 DEF Fine, SmoothlyBy, Shipped, Both
  <2> QED
    BY <2>1, <2>2, <2>3 DEF Fine, WrittenBy, SmoothlyBy, RecordOf, Early,
       Harvesting, Both, Forms
<1>12. CASE CannotMeasure(b)
  <2>1. /\ pc[b] = "measure" /\ pc'[b] = "failed" /\ made'[b] = {}
        /\ b \in flawed'
        /\ UNCHANGED <<disk, releases, artifacts, retiring, halfPruned>>
    BY <1>1, <1>12 DEF CannotMeasure, Goto, Typed, OutputTypeOK, DiskOK
  <2> QED
    BY <1>1, <2>1 DEF Fine, WrittenBy, SmoothlyBy, RecordOf, Early, Harvesting
<1>13. ASSUME NEW r \in Builds, Retire(r) PROVE Fine(b)'
  BY <1>1, <1>13, Undisturbed DEF Retire
<1>14. ASSUME NEW r \in Builds, NEW f \in Forms, RemoveFile(r, f) PROVE Fine(b)'
  <2>1. r \in releases /\ r \in retiring
    BY <1>1, <1>14 DEF RemoveFile, Typed, OutputTypeOK, RecordOK
  <2>2. UNCHANGED <<pc, made, releases, artifacts, retiring, flawed, halfPruned>>
    BY <1>14 DEF RemoveFile
  <2>3. CASE b # r
    <3>1. disk'[b] = disk[b]
      BY <1>14, <2>3 DEF RemoveFile
    <3> QED
      BY <1>1, <2>2, <3>1 DEF Fine, WrittenBy, SmoothlyBy, RecordOf, Running
  <2>4. CASE b = r
    <3>1. pc[b] = "done" /\ made[b] = {}
      BY <1>1, <2>1, <2>4 DEF Fine, RecordOf, WrittenBy
    <3>2. \A g \in Forms : disk'[b][g] # "none" => disk[b][g] # "none"
      BY <1>1, <1>14, <2>4 DEF RemoveFile, Typed, OutputTypeOK, DiskOK
    <3> QED
      BY <1>1, <2>1, <2>2, <2>4, <3>1, <3>2 DEF Fine, WrittenBy, SmoothlyBy, RecordOf,
         Running, Early, Harvesting
  <2> QED
    BY <2>3, <2>4
<1>15. ASSUME NEW r \in Builds, Forget(r) PROVE Fine(b)'
  <2>1. /\ UNCHANGED <<pc, disk, made, halfPruned>>
        /\ flawed \subseteq flawed'
        /\ releases' = releases \ {r} /\ retiring' = retiring \ {r}
    BY <1>15 DEF Forget
  <2>2. WrittenBy(b)' /\ SmoothlyBy(b)'
    BY <1>1, <2>1 DEF Fine, WrittenBy, SmoothlyBy
  <2>3. CASE b # r
    <3>1. artifacts'[b] = artifacts[b]
      BY <1>15, <2>3 DEF Forget
    <3> QED
      BY <1>1, <2>1, <2>2, <2>3, <3>1 DEF Fine, RecordOf, Running
  <2>4. CASE b = r
    <3>1. b \notin releases' /\ b \notin Running
      BY <1>1, <1>15, <2>1, <2>4
         DEF Forget, Fine, RecordOf, Running, Typed, OutputTypeOK, RecordOK
    <3>2. b \in flawed' \/ \A f \in artifacts[b] : disk[b][f] = "none"
      BY <1>15, <2>4 DEF Forget
    <3>3. \A f \in Forms : disk[b][f] # "none" => b \in flawed'
      BY <1>1, <2>1, <3>1, <3>2 DEF Fine, RecordOf
    <3> QED
      BY <2>1, <2>2, <3>1, <3>3 DEF Fine, RecordOf
  <2> QED
    BY <2>3, <2>4
<1>16. CASE Crash
  <2>1. /\ pc'[b] = IF b \in Running THEN "dead" ELSE pc[b]
        /\ made'[b] = {}
        /\ UNCHANGED <<releases, artifacts>>
        /\ flawed' = flawed \cup Running
        /\ halfPruned' = halfPruned \cup retiring /\ retiring' = {}
    BY <1>16 DEF Crash
  <2>2. b \notin Running => disk'[b] = disk[b]
    <3>1. disk' = [d \in Builds |-> [f \in Forms |->
                    IF (pc[d] = "boot" /\ f = "img") \/ pc[d] = f
                      THEN "partial" ELSE disk[d][f]]]
      BY <1>16 DEF Crash
    <3>2. b \notin Running => pc[b] \notin Forms \cup {"boot"}
      BY DEF Running, Forms
    <3> QED
      BY <1>1, <3>1, <3>2 DEF Typed, OutputTypeOK, DiskOK
  <2>3. CASE b \in Running
    BY <1>1, <2>1, <2>3 DEF Fine, WrittenBy, SmoothlyBy, RecordOf, Running,
       Early, Harvesting
  <2>4. CASE b \notin Running
    <3>1. pc'[b] = pc[b] /\ disk'[b] = disk[b]
      BY <2>1, <2>2, <2>4
    <3>2. pc[b] \in {"idle", "done", "failed", "dead"}
      BY <2>4 DEF Running
    <3> QED
      BY <1>1, <2>1, <2>4, <3>1, <3>2
         DEF Fine, WrittenBy, SmoothlyBy, RecordOf, Running
  <2> QED
    BY <2>3, <2>4
<1>17. CASE UNCHANGED vars
  BY <1>1, <1>17 DEF vars, Fine, WrittenBy, SmoothlyBy, RecordOf, Running
<1> QED
  BY <1>2, <1>3, <1>4, <1>5, <1>6, <1>7, <1>8, <1>9, <1>10, <1>11, <1>12,
     <1>13, <1>14, <1>15, <1>16, <1>17 DEF Next, PipelineStep, Both

(* Each artifact a release advertises is there and whole until a prune of  *)
(* it begins, whatever fails, and however often the service dies.          *)
THEOREM AdvertisedStaysWhole == Spec => []AdvertisedWhole
<1>1. DiskInv => AdvertisedWhole
  BY DEF DiskInv, Fine, RecordOf, AdvertisedWhole, Typed, OutputTypeOK, RecordOK
<1> QED
  BY <1>1, DiskInit, DiskStep, PTL DEF Spec

(* What is in images/ belongs to a running build, is advertised, or comes  *)
(* of a failed step.                                                       *)
THEOREM NothingForgotten == Spec => []Accounted
<1>1. DiskInv => Accounted
  BY DEF DiskInv, Fine, RecordOf, Accounted
<1> QED
  BY <1>1, DiskInit, DiskStep, PTL DEF Spec

-----------------------------------------------------------------------------
(* What is in the image-store                                              *)

(* Staged images in the store, unless a copy over it is under way, in what *)
(* a harvest works with, and in every volume.                              *)
Kept_(v) == v # Torn /\ Staged \subseteq v

Alone == \A b, c \in Using : b = c
StoreKept == (\E b \in Builds : pc[b] = "storing") \/ Kept_(store)
TreeKept(b) ==
  /\ pc[b] = "seed" => exists
  /\ pc[b] \in {"harvest", "found", "got", "copy", "copying", "pack"}
       => exists /\ Staged \subseteq tree
  /\ pc[b] = "storing" => Staged \subseteq packed[b]
VolumeKept(b) == b \in HasStore => Kept_(volume[b])

Sound == Alone /\ StoreKept /\ \A b \in Builds : TreeKept(b) /\ VolumeKept(b)

KeptInv == Typed /\ (~spoilt => Sound)

(* No set of images is a torn file. *)
TornIsNoSet == Torn \notin SUBSET ((Images \cup Kept) \X Nat)

LEMMA KeptInit == ASSUME TornIsNoSet PROVE Init => KeptInv
<1> SUFFICES ASSUME Init PROVE Sound
  BY TypedInit DEF KeptInv
<1>1. Alone /\ (\A b \in Builds : TreeKept(b))
  BY DEF Init, HarvestInit, Alone, Using, Harvesting, TreeKept
<1>2. Kept_(store)
  BY TornIsNoSet DEF Init, HarvestInit, Kept_, Staged, TornIsNoSet
<1>3. \A b \in Builds : VolumeKept(b)
  BY DEF Init, VolumeKept, HasStore
<1> QED
  BY <1>1, <1>2, <1>3 DEF Sound, StoreKept

(* What is spoilt stays so, and so do the builds that met. *)
LEMMA FaultsStay == [Next]_vars => (spoilt => spoilt') /\ met \subseteq met'
<1> DEFINE Goal == (spoilt => spoilt') /\ met \subseteq met'
<1> SUFFICES ASSUME [Next]_vars PROVE Goal
  OBVIOUS
<1> USE DEF harvestVars, outputs, record, mishapHistory, rest, inputs,
            directory, locals, history, faults
<1>1. ASSUME NEW b \in Builds, HarvestStep(b) PROVE Goal
  <2>1. met' = met
    BY <1>1 DEF HarvestStep, Seed, CannotSeed, Lookup, Skip, Download,
       DownloadFails, Unpack, BinaryCopied, EndAgent, CopyBinary, SkipBinary,
       LoadImage, EndComponents, Pack, StoreCopied, Clean, Abort
  <2>2. spoilt => spoilt'
    BY <1>1 DEF HarvestStep, Seed, CannotSeed, Lookup, Skip, Download,
       DownloadFails, Unpack, BinaryCopied, EndAgent, CopyBinary, SkipBinary,
       LoadImage, EndComponents, Pack, StoreCopied, Clean, Abort
  <2> QED
    BY <2>1, <2>2
<1>2. ASSUME NEW b \in Builds, PipelineStep(b) PROVE Goal
  BY <1>2 DEF PipelineStep, ComposeEdition, WrapVolume, WriteRaw, StepFails,
     Convert, ConvertFails, DropRaw, CannotDropRaw, Register, CannotMeasure
<1>3. ASSUME NEW b \in Builds, Retire(b) \/ Forget(b) \/ BeginHarvest(b)
             \/ \E f \in Forms : RemoveFile(b, f)
      PROVE  Goal
  <2>1. CASE BeginHarvest(b)
    BY <2>1 DEF BeginHarvest
  <2>2. CASE Retire(b) \/ Forget(b) \/ \E f \in Forms : RemoveFile(b, f)
    BY <2>2 DEF Retire, Forget, RemoveFile
  <2> QED
    BY <1>3, <2>1, <2>2
<1>4. ASSUME NEW c \in Components, Publish(c) PROVE Goal
  BY <1>4 DEF Publish
<1>5. CASE Crash
  BY <1>5 DEF Crash
<1>6. CASE UNCHANGED vars
  BY <1>6 DEF vars
<1> QED
  BY <1>1, <1>2, <1>3, <1>4, <1>5, <1>6 DEF Next

(* A step of one build that uses the inputs, or that is done with them. *)
LEMMA AloneStep ==
  ASSUME Typed, Alone, NEW b \in Builds, NEW t, pc' = [pc EXCEPT ![b] = t],
         b \in Using \/ t \notin Harvesting \cup {"edition", "volume"}
  PROVE  Alone'
BY DEF Alone, Using, Typed

(* The build that harvests is the only one there is to disturb. *)
LEMMA Harvested ==
  ASSUME TornIsNoSet, Typed, Sound, NEW b \in Builds, HarvestStep(b), ~spoilt',
         UNCHANGED volume
  PROVE  Sound'
<1>1. b \in Using
  BY DEF HarvestStep, Seed, CannotSeed, Lookup, Skip, Download,
     DownloadFails, Unpack, BinaryCopied,
     EndAgent, CopyBinary, SkipBinary, LoadImage, EndComponents, Pack,
     StoreCopied, Clean, Abort, Goto, Using, Harvesting
<1>2. \A c \in Builds \ {b} :
        pc[c] \notin Harvesting \cup {"edition", "volume"}
  BY <1>1 DEF Sound, Alone, Using
<1>3. \E t : pc' = [pc EXCEPT ![b] = t]
  BY DEF HarvestStep, Seed, CannotSeed, Lookup, Skip, Download,
     DownloadFails, Unpack, BinaryCopied,
     EndAgent, CopyBinary, SkipBinary, LoadImage, EndComponents, Pack,
     StoreCopied, Clean, Abort, Goto, Typed
<1>4. Alone'
  BY <1>1, <1>3, AloneStep DEF Sound
<1>5. \A c \in Builds \ {b} : pc'[c] = pc[c] /\ TreeKept(c)'
  BY <1>2, <1>3 DEF Typed, TreeKept, Harvesting
<1>6. (\A c \in Builds : VolumeKept(c))'
  BY DEF Sound, VolumeKept, HasStore
<1>7. pc[b] # "storing" => Kept_(store)
  BY <1>2 DEF Sound, StoreKept, Harvesting
<1>8. SUFFICES StoreKept' /\ TreeKept(b)'
  BY <1>4, <1>5, <1>6 DEF Sound
<1> USE DEF Goto, Typed, inputs, directory, locals, history, faults
<1>9. TreeKept(b)
  BY DEF Sound
<1>10. CASE Seed(b)
  BY <1>7, <1>9, <1>10 DEF Seed, StoreKept, TreeKept, Kept_
<1>11. CASE CannotSeed(b)
  BY <1>11 DEF CannotSeed
<1>12. ASSUME NEW c \in Components, Lookup(b, c) \/ Skip(b, c)
       PROVE  StoreKept' /\ TreeKept(b)'
  BY <1>7, <1>9, <1>12 DEF Lookup, Skip, StoreKept, TreeKept
<1>13. CASE \/ Download(b) \/ DownloadFails(b) \/ Unpack(b) \/ BinaryCopied(b)
            \/ EndAgent(b)
  BY <1>7, <1>9, <1>13 DEF Download, DownloadFails, Unpack, BinaryCopied,
     EndAgent, StoreKept, TreeKept
<1>14. ASSUME NEW x \in Binaries, CopyBinary(b, x) \/ SkipBinary(b, x)
       PROVE  StoreKept' /\ TreeKept(b)'
  BY <1>7, <1>9, <1>14 DEF CopyBinary, SkipBinary, StoreKept, TreeKept
<1>15. CASE LoadImage(b)
  BY <1>7, <1>9, <1>15 DEF LoadImage, StoreKept, TreeKept
<1>16. CASE EndComponents(b)
  BY <1>7, <1>9, <1>16 DEF EndComponents, StoreKept, TreeKept
<1>17. CASE Pack(b)
  <2>1. pc[b] = "pack" /\ pc'[b] = "storing" /\ packed'[b] = tree
    BY <1>17 DEF Pack, HarvestTypeOK
  <2> QED
    BY <1>9, <2>1 DEF StoreKept, TreeKept
<1>18. CASE StoreCopied(b)
  <2>1. pc[b] = "storing" /\ pc'[b] = "clean" /\ store' = packed[b]
    BY <1>18 DEF StoreCopied
  <2>2. store' # Torn
    BY <2>1, TornIsNoSet DEF TornIsNoSet, HarvestTypeOK
  <2> QED
    BY <1>9, <2>1, <2>2 DEF StoreKept, TreeKept, Kept_
<1>19. CASE Clean(b)
  BY <1>7, <1>19 DEF Clean, StoreKept, TreeKept
<1>20. CASE Abort(b)
  BY <1>7, <1>20 DEF Abort, StoreKept, TreeKept
<1> QED
  BY <1>10, <1>11, <1>12, <1>13, <1>14, <1>15, <1>16, <1>17, <1>18, <1>19,
     <1>20 DEF HarvestStep

LEMMA KeptStep ==
  ASSUME TornIsNoSet
  PROVE  KeptInv /\ [Next]_vars => KeptInv'
<1> SUFFICES ASSUME Typed, Sound, [Next]_vars, ~spoilt' PROVE Sound'
  BY TypedStep, FaultsStay DEF KeptInv
<1> USE DEF inputs, directory, locals, history, faults, rest, harvestVars, outputs
<1> DEFINE Calm == UNCHANGED <<store, exists, tree, packed>>
(* A step of a build that no longer, or does not yet, harvest. *)
<1>1. ASSUME NEW b \in Builds, NEW t \in Stages \ Harvesting, Calm,
             UNCHANGED volume, pc' = [pc EXCEPT ![b] = t],
             pc[b] \notin Harvesting,
             pc[b] \in {"edition", "volume"} \/ t \notin {"edition", "volume"}
      PROVE  Sound'
  <2>1. Alone'
    BY <1>1, AloneStep DEF Sound, Using
  <2>2. StoreKept'
    BY <1>1 DEF Sound, StoreKept, Typed, Harvesting
  <2>3. (\A c \in Builds : TreeKept(c) /\ VolumeKept(c))'
    BY <1>1 DEF Sound, TreeKept, VolumeKept, HasStore, Typed, Harvesting
  <2> QED
    BY <2>1, <2>2, <2>3 DEF Sound
<1>2. ASSUME Calm, UNCHANGED <<volume, pc>> PROVE Sound'
  BY <1>2 DEF Sound, Alone, Using, StoreKept, TreeKept, VolumeKept, HasStore
<1>3. ASSUME NEW c \in Components, Publish(c), UNCHANGED outputs PROVE Sound'
  BY <1>2, <1>3 DEF Publish
<1>4. ASSUME NEW b \in Builds, BeginHarvest(b), UNCHANGED outputs PROVE Sound'
  <2>1. Using = {} /\ UNCHANGED <<store, packed, volume>> /\ exists'
        /\ pc[b] = "idle" /\ pc' = [pc EXCEPT ![b] = "seed"]
    BY <1>4 DEF BeginHarvest, Goto
  <2>2. \A c \in Builds : pc[c] \notin Harvesting \cup {"edition", "volume"}
    BY <2>1 DEF Using
  <2>3. Alone' /\ (\A c \in Builds : TreeKept(c))'
    BY <2>1, <2>2 DEF Typed, Alone, Using, TreeKept, Harvesting
  <2>4. StoreKept' /\ (\A c \in Builds : VolumeKept(c))'
    BY <2>1, <2>2 DEF Sound, StoreKept, VolumeKept, HasStore, Harvesting
  <2> QED
    BY <2>3, <2>4 DEF Sound
<1>5. ASSUME NEW b \in Builds, HarvestStep(b), UNCHANGED outputs PROVE Sound'
  BY <1>5, Harvested
<1>6. ASSUME NEW b \in Builds, WrapVolume(b) PROVE Sound'
  <2>1. pc[b] = "volume" /\ pc' = [pc EXCEPT ![b] = "boot"]
        /\ volume' = [volume EXCEPT ![b] = store] /\ Calm
    BY <1>6 DEF WrapVolume, Goto
  <2>2. Kept_(store)
    BY <2>1 DEF Sound, Alone, Using, StoreKept, Harvesting
  <2>3. Alone'
    BY <2>1, AloneStep DEF Sound, Harvesting
  <2>4. StoreKept' /\ (\A c \in Builds : TreeKept(c))'
    BY <2>1, <2>2 DEF Sound, StoreKept, TreeKept, Typed
  <2>5. (\A c \in Builds : VolumeKept(c))'
    BY <2>1, <2>2 DEF Sound, VolumeKept, HasStore, Typed, OutputTypeOK, ComposedOK
  <2> QED
    BY <2>3, <2>4, <2>5 DEF Sound
<1>7. ASSUME NEW b \in Builds, PipelineStep(b), ~WrapVolume(b) PROVE Sound'
  <2> DEFINE Ends(t) ==
        /\ Calm /\ UNCHANGED volume /\ pc' = [pc EXCEPT ![b] = t]
        /\ t \in Stages \ Harvesting /\ pc[b] \notin Harvesting
        /\ pc[b] \in {"edition", "volume"} \/ t \notin {"edition", "volume"}
  <2>1. CASE ComposeEdition(b)
    <3>1. Ends("volume")
      BY <2>1 DEF ComposeEdition, Goto, Stages, Harvesting
    <3> QED
      BY <1>1, <3>1
  <2>2. CASE WriteRaw(b)
    <3>1. Ends("qcow2")
      BY <2>2 DEF WriteRaw, Goto, Stages, Harvesting
    <3> QED
      BY <1>1, <3>1
  <2>3. CASE StepFails(b)
    <3>1. Ends("failed")
      BY <2>3 DEF StepFails, Stages, Harvesting
    <3> QED
      BY <1>1, <3>1
  <2>4. ASSUME NEW f \in Both, Convert(b, f) \/ ConvertFails(b, f) PROVE Sound'
    <3>1. Ends(Next_(f))
      BY <2>4 DEF Convert, ConvertFails, Goto, Next_, Both, Stages, Harvesting
    <3> QED
      BY <1>1, <3>1
  <2>5. CASE DropRaw(b) \/ CannotDropRaw(b)
    <3>1. Ends("measure")
      BY <2>5 DEF DropRaw, CannotDropRaw, Goto, Stages, Harvesting
    <3> QED
      BY <1>1, <3>1
  <2>6. CASE Register(b)
    <3>1. Ends("done")
      BY <2>6 DEF Register, Goto, Stages, Harvesting
    <3> QED
      BY <1>1, <3>1
  <2>7. CASE CannotMeasure(b)
    <3>1. Ends("failed")
      BY <2>7 DEF CannotMeasure, Goto, Stages, Harvesting
    <3> QED
      BY <1>1, <3>1
  <2> QED
    BY <1>7, <2>1, <2>2, <2>3, <2>4, <2>5, <2>6, <2>7 DEF PipelineStep, Both
<1>8. ASSUME NEW r \in Builds,
             Retire(r) \/ Forget(r) \/ \E f \in Forms : RemoveFile(r, f)
      PROVE  Sound'
  BY <1>2, <1>8 DEF Retire, Forget, RemoveFile
<1>9. CASE Crash
  <2>1. \A c \in Builds : pc'[c] \in {"idle", "done", "failed", "dead"}
    BY <1>9 DEF Crash, Running
  <2>2. \A c \in Builds : pc[c] # "storing"
    BY <1>9 DEF Crash
  <2>3. Alone' /\ (\A c \in Builds : TreeKept(c))'
    BY <2>1 DEF Alone, Using, TreeKept, Harvesting
  <2>4. StoreKept' /\ (\A c \in Builds : VolumeKept(c))'
    BY <1>9, <2>2 DEF Crash, Sound, StoreKept, VolumeKept, HasStore
  <2> QED
    BY <2>3, <2>4 DEF Sound
<1>10. CASE UNCHANGED vars
  BY <1>2, <1>10 DEF vars
<1> QED
  BY <1>3, <1>4, <1>5, <1>6, <1>7, <1>8, <1>9, <1>10 DEF Next

(* Unless harvests met, one could not seed its store or a copy over        *)
(* image_store was cut short, no build ever loses an image that was staged by hand.    *)
THEOREM StagedImagesSurvive ==
  ASSUME TornIsNoSet
  PROVE  Spec => []KeptSurvive
<1>1. KeptInv => KeptSurvive
  <2> SUFFICES ASSUME KeptInv, ~spoilt, NEW b \in HasStore PROVE Kept_(volume[b])
    BY DEF KeptSurvive, Kept_
  <2>1. b \in Builds
    BY DEF HasStore
  <2> QED
    BY <2>1 DEF KeptInv, Sound, VolumeKept
<1>2. Init => KeptInv
  BY KeptInit
<1>3. KeptInv /\ [Next]_vars => KeptInv'
  BY KeptStep
<1> QED
  BY <1>1, <1>2, <1>3, PTL DEF Spec

-----------------------------------------------------------------------------
(* What the latest releases come to                                        *)

(* The harvest is through with a component, and has it. *)
Harvested_(b, c) ==
  c \notin missed[b] \cup todo[b] /\ (tag[b] = <<>> \/ tag[b][1] # c)

(* What it is through with is in these layers, and in this image-store.    *)
AgentIn(b, a, ls) == \E v \in Recent(b, a) : \A x \in BinariesOf[a] : ls[x] = v
AgentsIn(b, ls) ==
  \A a \in Agents : Own(a) /\ Harvested_(b, a) => AgentIn(b, a, ls)
ImageIn(b, i, images) == images # Torn /\ \E v \in Recent(b, i) : <<i, v>> \in images
ImagesIn(b, images) ==
  \A i \in Images : Harvested_(b, i) => ImageIn(b, i, images)

(* Which component a build is at, and which are left. *)
AtOne(b) ==
  /\ pc[b] \in {"found", "got", "copy", "copying"} =>
       tag[b][1] \notin todo[b] /\ tag[b][2] \in Recent(b, tag[b][1])
  /\ pc[b] \in {"idle", "seed", "harvest", "pack", "storing", "clean", "edition",
                "volume"} => tag[b] = <<>>
  /\ pc[b] \in {"seed", "harvest", "found", "got", "copy", "copying"} =>
       \A c \in Components : asked[b][c] <= latest[c]
  /\ pc[b] = "seed" => todo[b] = Components
  /\ pc[b] \in {"pack", "storing", "clean", "edition", "volume"} => todo[b] = {}

(* Nobody replaces what it has fetched and is copying. *)
Fetched(b) ==
  /\ pc[b] = "got" => \A a \in assets : a[1] = tag[b][1] => a = tag[b]
  /\ pc[b] \in {"copy", "copying"} =>
       /\ tag[b][1] \in Agents
       /\ \A u \in unpacked : u[1] = tag[b][1] => u = tag[b]
       /\ left[b] \subseteq BinariesOf[tag[b][1]]
       /\ tag[b][1] \notin missed[b] =>
            \A x \in BinariesOf[tag[b][1]] \ left[b] :
              layers[x] = tag[b][2] \/ (pc[b] = "copying" /\ x = copied[b][1])
  /\ pc[b] = "copying" =>
       copied[b][1] \in BinariesOf[tag[b][1]] /\ copied[b][2] = tag[b][2]

AgentsLatest(b) ==
  /\ pc[b] \in Harvesting \cup {"edition"} => AgentsIn(b, layers)
  /\ pc[b] = "volume" => AgentsIn(b, edition[b])

ImagesLatest(b) ==
  /\ pc[b] \in {"seed", "harvest", "found", "got", "copy", "copying", "pack"} =>
       ImagesIn(b, tree) /\ \A i \in Images : Harvested_(b, i) => dirty[b]
  /\ pc[b] = "storing" =>
       ImagesIn(b, packed[b]) /\ \A i \in Images : Harvested_(b, i) => dirty[b]
  /\ pc[b] \in {"clean", "edition", "volume"} => ImagesIn(b, store)

(* LatestComposed, of one build. *)
VolumeLatest(b) ==
  /\ pc[b] \in Harvesting \cup {"idle", "edition", "volume"} => volume[b] = {}
  /\ b \in HasStore =>
       /\ \A a \in Agents \ missed[b] : Own(a) => AgentIn(b, a, edition[b])
       /\ \A i \in Images \ missed[b] : ImageIn(b, i, volume[b])

Latest(b) ==
  AtOne(b) /\ Fetched(b) /\ AgentsLatest(b) /\ ImagesLatest(b) /\ VolumeLatest(b)

(* A build that has met none has the inputs to itself. *)
Apart(b) == b \in Using => \A c \in Using : c = b

LatestInv == Typed /\ \A b \in Builds \ met : Apart(b) /\ Latest(b)

LEMMA LatestInit == Init => LatestInv
<1> SUFFICES ASSUME Init, NEW b \in Builds PROVE Apart(b) /\ Latest(b)
  BY TypedInit DEF LatestInv
<1>1. pc[b] = "idle" /\ volume[b] = {} /\ tag[b] = <<>>
  BY DEF Init, HarvestInit
<1> QED
  BY <1>1 DEF Latest, AtOne, Fetched, AgentsLatest, ImagesLatest, VolumeLatest,
     HasStore, Harvesting, Apart, Using

(* A build that is not at the inputs has only its volume to account for. *)
LEMMA LatestElsewhere ==
  ASSUME NEW b \in Builds, VolumeLatest(b)',
         pc'[b] \notin Harvesting \cup {"edition", "volume"},
         pc'[b] = "idle" => tag'[b] = <<>>
  PROVE  Latest(b)'
BY DEF Latest, AtOne, Fetched, AgentsLatest, ImagesLatest, Harvesting

(* Releases only come on top. *)
LEMMA VolumeStays ==
  ASSUME Typed, Typed', NEW b \in Builds, VolumeLatest(b),
         UNCHANGED <<volume[b], edition[b], missed[b], asked[b]>>,
         \A c \in Components : latest[c] <= latest'[c],
         pc'[b] \in Harvesting \cup {"idle", "edition", "volume"}
           => pc[b] \in Harvesting \cup {"idle", "edition", "volume"}
  PROVE  VolumeLatest(b)'
<1>1. \A c \in Components : Recent(b, c) \subseteq Recent(b, c)'
  BY DEF Recent, Typed, HarvestTypeOK
<1>2. b \in HasStore' <=> b \in HasStore
  BY DEF HasStore
<1>3. \A a \in Agents : AgentIn(b, a, edition[b]) => AgentIn(b, a, edition[b])'
  BY <1>1 DEF AgentIn, Components
<1>4. \A i \in Images : ImageIn(b, i, volume[b]) => ImageIn(b, i, volume[b])'
  BY <1>1 DEF ImageIn, Components
<1> QED
  BY <1>2, <1>3, <1>4 DEF VolumeLatest, Own

(* A harvest's own step, nobody else being at the inputs: one step per      *)
(* action, and what it says of the component it is at.                     *)
LEMMA HarvestLatest ==
  ASSUME TornIsNoSet, Typed, Typed', NEW b \in Builds, HarvestStep(b),
         AtOne(b), Fetched(b), AgentsLatest(b), ImagesLatest(b)
  PROVE  AtOne(b)' /\ Fetched(b)' /\ AgentsLatest(b)' /\ ImagesLatest(b)'
<1> DEFINE Goal == AtOne(b)' /\ Fetched(b)' /\ AgentsLatest(b)' /\ ImagesLatest(b)'
<1> USE DEF Goto, inputs, directory, locals, history, faults
<1>1. latest' = latest /\ asked' = asked
  BY DEF HarvestStep, Seed, CannotSeed, Lookup, Skip, Download, DownloadFails,
     Unpack, BinaryCopied, EndAgent, CopyBinary, SkipBinary, LoadImage,
     EndComponents, Pack, StoreCopied, Clean, Abort
<1>2. \A c \in Components : Recent(b, c)' = Recent(b, c)
  BY <1>1 DEF Recent
<1>3. \A a \in Agents : \A ls :
        AgentIn(b, a, ls) <=> \E v \in Recent(b, a)' : \A x \in BinariesOf[a] : ls[x] = v
  BY <1>2 DEF AgentIn, Components
<1>4. \A i \in Images : \A is :
        ImageIn(b, i, is) <=> is # Torn /\ \E v \in Recent(b, i)' : <<i, v>> \in is
  BY <1>2 DEF ImageIn, Components
<1>0. tree # Torn /\ tree' # Torn /\ packed'[b] # Torn
  <2>1. /\ tree \in SUBSET ((Images \cup Kept) \X Nat)
        /\ tree' \in SUBSET ((Images \cup Kept) \X Nat)
        /\ packed'[b] \in SUBSET ((Images \cup Kept) \X Nat)
    BY DEF Typed, HarvestTypeOK
  <2> QED
    BY <2>1, TornIsNoSet DEF TornIsNoSet
(* A step that finishes no component. *)
<1>5. ASSUME \A c \in Components : Harvested_(b, c)' => Harvested_(b, c),
             NEW ls, AgentsIn(b, ls), ls = layers'
      PROVE  AgentsIn(b, layers)'
  BY <1>3, <1>5 DEF AgentsIn, AgentIn, Own, Components
<1>6. ASSUME \A c \in Components : Harvested_(b, c)' => Harvested_(b, c),
             ImagesIn(b, tree), \A i \in Images : Harvested_(b, i) => dirty[b],
             tree \subseteq tree', dirty'[b] = dirty[b]
      PROVE  /\ ImagesIn(b, tree)'
             /\ \A i \in Images : Harvested_(b, i)' => dirty'[b]
  BY <1>0, <1>4, <1>6 DEF ImagesIn, ImageIn, Components
<1>10. CASE Seed(b) \/ CannotSeed(b)
  <2>1. /\ pc[b] = "seed" /\ pc'[b] = "harvest"
        /\ UNCHANGED <<layers, dirty, missed, todo, tag>>
    BY <1>10 DEF Seed, CannotSeed, Typed
  <2>2. todo[b] = Components /\ tag[b] = <<>>
    BY <2>1 DEF AtOne
  <2>3. AtOne(b)' /\ Fetched(b)'
    BY <1>1, <2>1, <2>2 DEF AtOne, Fetched
  <2>4. \A c \in Components : ~Harvested_(b, c)'
    BY <2>1, <2>2 DEF Harvested_
  <2>5. AgentsLatest(b)' /\ ImagesLatest(b)'
    BY <2>1, <2>4 DEF AgentsLatest, ImagesLatest, AgentsIn, ImagesIn, Components
  <2> QED
    BY <2>3, <2>5
<1>12. ASSUME NEW c \in Components, Lookup(b, c) PROVE Goal
  <2>1. /\ pc[b] = "harvest" /\ pc'[b] = "found" /\ c \in todo[b]
        /\ todo'[b] = todo[b] \ {c} /\ tag'[b] = <<c, latest[c]>>
        /\ UNCHANGED <<layers, tree, dirty, missed>>
    BY <1>12 DEF Lookup, Typed, HarvestTypeOK
  <2>2. tag[b] = <<>> /\ asked[b][c] <= latest[c]
    BY <2>1 DEF AtOne
  <2>3. latest[c] \in Recent(b, c)'
    <3>1. asked[b][c] \in Nat /\ latest[c] \in Nat
      BY DEF Typed, HarvestTypeOK
    <3>2. latest[c] \in Recent(b, c)
      BY <2>2, <3>1 DEF Recent
    <3> QED
      BY <1>2, <3>2
  <2>4. AtOne(b)' /\ Fetched(b)'
    BY <1>1, <2>1, <2>3 DEF AtOne, Fetched
  <2>5. \A k \in Components : Harvested_(b, k)' => Harvested_(b, k)
    BY <2>1, <2>2 DEF Harvested_
  <2>6. AgentsLatest(b)' /\ ImagesLatest(b)'
    BY <1>5, <1>6, <2>1, <2>5 DEF AgentsLatest, ImagesLatest, Harvesting
  <2> QED
    BY <2>4, <2>6
<1>13. ASSUME NEW c \in Components, Skip(b, c) PROVE Goal
  <2>1. /\ pc[b] = "harvest" /\ pc'[b] = "harvest"
        /\ todo'[b] = todo[b] \ {c} /\ missed'[b] = missed[b] \cup {c}
        /\ UNCHANGED <<layers, tree, dirty, tag>>
    BY <1>13 DEF Skip, Typed, HarvestTypeOK
  <2>2. AtOne(b)' /\ Fetched(b)'
    BY <1>1, <2>1 DEF AtOne, Fetched
  <2>3. \A k \in Components : Harvested_(b, k)' => Harvested_(b, k)
    BY <2>1 DEF Harvested_
  <2>4. AgentsLatest(b)' /\ ImagesLatest(b)'
    BY <1>5, <1>6, <2>1, <2>3 DEF AgentsLatest, ImagesLatest, Harvesting
  <2> QED
    BY <2>2, <2>4
<1>14. CASE Download(b)
  <2>1. /\ pc[b] = "found" /\ pc'[b] = "got"
        /\ assets' = {a \in assets : a[1] # tag[b][1]} \cup {tag[b]}
        /\ UNCHANGED <<layers, tree, dirty, missed, todo, tag>>
    BY <1>14 DEF Download, Typed
  <2>2. AtOne(b)' /\ Fetched(b)'
    BY <1>1, <1>2, <2>1 DEF AtOne, Fetched, Typed, Held
  <2>3. \A k \in Components : Harvested_(b, k)' => Harvested_(b, k)
    BY <2>1 DEF Harvested_
  <2>4. AgentsLatest(b)' /\ ImagesLatest(b)'
    BY <1>5, <1>6, <2>1, <2>3 DEF AgentsLatest, ImagesLatest, Harvesting
  <2> QED
    BY <2>2, <2>4
<1>15. CASE DownloadFails(b)
  <2>1. /\ pc[b] = "found" /\ pc'[b] = "harvest"
        /\ tag'[b] = <<>> /\ missed'[b] = missed[b] \cup {tag[b][1]}
        /\ UNCHANGED <<layers, tree, dirty, todo>>
    BY <1>15 DEF DownloadFails, Typed, HarvestTypeOK
  <2>2. AtOne(b)' /\ Fetched(b)'
    BY <1>1, <2>1 DEF AtOne, Fetched
  <2>3. \A k \in Components : Harvested_(b, k)' => Harvested_(b, k)
    BY <2>1 DEF Harvested_
  <2>4. AgentsLatest(b)' /\ ImagesLatest(b)'
    BY <1>5, <1>6, <2>1, <2>3 DEF AgentsLatest, ImagesLatest, Harvesting
  <2> QED
    BY <2>2, <2>4
<1>16. CASE Unpack(b)
  <2>1. /\ pc[b] = "got" /\ pc'[b] = "copy" /\ tag[b][1] \in Agents
        /\ left'[b] = BinariesOf[tag[b][1]]
        /\ UNCHANGED <<layers, tree, dirty, missed, todo, tag>>
    BY <1>16 DEF Unpack, Typed, HarvestTypeOK
  <2>2. unpacked' = {u \in unpacked : u[1] # tag[b][1]} \cup {tag[b]}
    BY <1>16, <2>1 DEF Unpack, Fetched
  <2>3. AtOne(b)'
    BY <1>1, <1>2, <2>1 DEF AtOne, Typed, Held
  <2>4. Fetched(b)'
    BY <2>1, <2>2 DEF Fetched
  <2>5. \A k \in Components : Harvested_(b, k)' => Harvested_(b, k)
    BY <2>1 DEF Harvested_
  <2>6. AgentsLatest(b)' /\ ImagesLatest(b)'
    BY <1>5, <1>6, <2>1, <2>5 DEF AgentsLatest, ImagesLatest, Harvesting
  <2> QED
    BY <2>3, <2>4, <2>6
<1>17. ASSUME NEW x \in Binaries, CopyBinary(b, x) PROVE Goal
  <2>1. /\ pc[b] = "copy" /\ pc'[b] = "copying"
        /\ x \in left[b] /\ left'[b] = left[b] \ {x}
        /\ layers' = [layers EXCEPT ![x] = Torn]
        /\ UNCHANGED <<unpacked, tree, dirty, missed, todo, tag>>
    BY <1>17 DEF CopyBinary, Typed, HarvestTypeOK
  <2>2. /\ tag[b][1] \in Agents /\ left[b] \subseteq BinariesOf[tag[b][1]]
        /\ \A u \in unpacked : u[1] = tag[b][1] => u = tag[b]
    BY <2>1 DEF Fetched
  <2>3. copied'[b] = <<x, tag[b][2]>>
    BY <1>17, <2>2 DEF CopyBinary, Typed, HarvestTypeOK
  <2>4. AtOne(b)'
    BY <1>1, <1>2, <2>1 DEF AtOne, Typed, Held
  <2>5. \A y \in Binaries \ {x} : layers'[y] = layers[y]
    BY <2>1 DEF Typed, HarvestTypeOK
  <2>6. Fetched(b)'
    <3>1. tag[b][1] \notin missed[b] =>
            \A y \in BinariesOf[tag[b][1]] \ left'[b] :
              layers'[y] = tag[b][2] \/ y = x
      BY <2>1, <2>2, <2>5, ItsBinaries DEF Fetched
    <3> QED
      BY <2>1, <2>2, <2>3, <3>1 DEF Fetched
  <2>7. \A k \in Components : Harvested_(b, k)' <=> Harvested_(b, k)
    BY <2>1 DEF Harvested_
  <2>8. AgentsIn(b, layers)'
    <3> SUFFICES ASSUME NEW a \in Agents, Own(a), Harvested_(b, a)
                 PROVE  AgentIn(b, a, layers)'
      BY <2>7 DEF AgentsIn, Own, Components
    <3>1. a # tag[b][1]
      BY <2>1, <2>2 DEF Harvested_, Typed, Held
    <3>2. \A y \in BinariesOf[a] : layers'[y] = layers[y]
      BY <2>1, <2>2, <2>5, <3>1, ItsBinaries DEF Own
    <3>3. AgentIn(b, a, layers)
      BY <2>1 DEF AgentsLatest, AgentsIn, Harvesting
    <3> QED
      BY <1>3, <3>2, <3>3 DEF AgentIn
  <2>9. AgentsLatest(b)'
    BY <2>1, <2>8 DEF AgentsLatest
  <2>10. ImagesLatest(b)'
    BY <1>6, <2>1, <2>7 DEF ImagesLatest
  <2> QED
    BY <2>4, <2>6, <2>9, <2>10
<1>18. CASE BinaryCopied(b)
  <2> DEFINE x == copied[b][1]
  <2>1. /\ pc[b] = "copying" /\ pc'[b] = "copy"
        /\ layers' = [layers EXCEPT ![x] = copied[b][2]]
        /\ UNCHANGED <<unpacked, tree, dirty, missed, todo, tag, left>>
    BY <1>18 DEF BinaryCopied, Typed, HarvestTypeOK
  <2>2. /\ tag[b][1] \in Agents
        /\ \A u \in unpacked : u[1] = tag[b][1] => u = tag[b]
        /\ left[b] \subseteq BinariesOf[tag[b][1]]
        /\ x \in BinariesOf[tag[b][1]] /\ copied[b][2] = tag[b][2]
    BY <2>1 DEF Fetched
  <2>3. AtOne(b)'
    BY <1>1, <1>2, <2>1 DEF AtOne, Typed, Held
  <2>4. /\ x \in Binaries /\ layers'[x] = tag[b][2]
        /\ \A y \in Binaries \ {x} : layers'[y] = layers[y]
    BY <2>1, <2>2, ItsBinaries DEF Typed, HarvestTypeOK
  <2>5. Fetched(b)'
    <3>1. tag[b][1] \notin missed[b] =>
            \A y \in BinariesOf[tag[b][1]] \ left[b] : layers'[y] = tag[b][2]
      BY <2>1, <2>2, <2>4, ItsBinaries DEF Fetched
    <3> QED
      BY <2>1, <2>2, <3>1 DEF Fetched
  <2>6. \A k \in Components : Harvested_(b, k)' <=> Harvested_(b, k)
    BY <2>1 DEF Harvested_
  <2>7. AgentsIn(b, layers)'
    <3> SUFFICES ASSUME NEW a \in Agents, Own(a), Harvested_(b, a)
                 PROVE  AgentIn(b, a, layers)'
      BY <2>6 DEF AgentsIn, Own, Components
    <3>1. a # tag[b][1]
      BY <2>1, <2>2 DEF Harvested_, Typed, Held
    <3>2. \A y \in BinariesOf[a] : layers'[y] = layers[y]
      BY <2>1, <2>2, <2>4, <3>1, ItsBinaries DEF Own
    <3>3. AgentIn(b, a, layers)
      BY <2>1 DEF AgentsLatest, AgentsIn, Harvesting
    <3> QED
      BY <1>3, <3>2, <3>3 DEF AgentIn
  <2>8. AgentsLatest(b)'
    BY <2>1, <2>7 DEF AgentsLatest
  <2>9. ImagesLatest(b)'
    BY <1>6, <2>1, <2>6 DEF ImagesLatest
  <2> QED
    BY <2>3, <2>5, <2>8, <2>9
<1>19. ASSUME NEW x \in Binaries, SkipBinary(b, x) PROVE Goal
  <2>1. /\ pc[b] = "copy" /\ pc'[b] = "copy"
        /\ left'[b] = left[b] \ {x} /\ missed'[b] = missed[b] \cup {tag[b][1]}
        /\ UNCHANGED <<layers, unpacked, tree, dirty, todo, tag>>
    BY <1>19 DEF SkipBinary, Typed, HarvestTypeOK
  <2>2. AtOne(b)'
    BY <1>1, <1>2, <2>1 DEF AtOne, Typed, Held
  <2>3. Fetched(b)'
    BY <2>1 DEF Fetched
  <2>4. \A k \in Components : Harvested_(b, k)' => Harvested_(b, k)
    BY <2>1 DEF Harvested_
  <2>5. AgentsLatest(b)' /\ ImagesLatest(b)'
    BY <1>5, <1>6, <2>1, <2>4 DEF AgentsLatest, ImagesLatest, Harvesting
  <2> QED
    BY <2>2, <2>3, <2>5
<1>20. CASE EndAgent(b)
  <2>1. /\ pc[b] = "copy" /\ pc'[b] = "harvest" /\ left[b] = {}
        /\ tag'[b] = <<>>
        /\ UNCHANGED <<layers, tree, dirty, missed, todo>>
    BY <1>20 DEF EndAgent, Typed, HarvestTypeOK
  <2>2. AtOne(b)' /\ Fetched(b)'
    BY <1>1, <2>1 DEF AtOne, Fetched
  <2>3. /\ tag[b][1] \in Agents /\ tag[b][2] \in Recent(b, tag[b][1])
        /\ tag[b][1] \notin missed[b] =>
             \A x \in BinariesOf[tag[b][1]] : layers[x] = tag[b][2]
    BY <2>1 DEF AtOne, Fetched
  <2>4. \A k \in Components \ {tag[b][1]} : Harvested_(b, k)' => Harvested_(b, k)
    BY <2>1 DEF Harvested_
  <2>5. AgentsIn(b, layers)'
    <3> SUFFICES ASSUME NEW a \in Agents, Own(a), Harvested_(b, a)'
                 PROVE  AgentIn(b, a, layers)
      BY <1>3, <2>1 DEF AgentsIn, AgentIn, Own
    <3>1. CASE a = tag[b][1]
      <4>1. a \notin missed[b]
        BY <2>1 DEF Harvested_
      <4> QED
        BY <2>3, <3>1, <4>1 DEF AgentIn
    <3>2. CASE a # tag[b][1]
      BY <2>1, <2>4, <3>2 DEF AgentsLatest, AgentsIn, Harvesting, Components
    <3> QED
      BY <3>1, <3>2
  <2>6. \A i \in Images : Harvested_(b, i)' => Harvested_(b, i)
    BY <2>3, <2>4, KindAssumption DEF Components
  <2>7. ImagesLatest(b)'
    BY <1>4, <2>1, <2>6 DEF ImagesLatest, ImagesIn, ImageIn
  <2> QED
    BY <2>1, <2>2, <2>5, <2>7 DEF AgentsLatest
<1>21. CASE LoadImage(b)
  <2>1. /\ pc[b] = "got" /\ pc'[b] = "harvest" /\ tag[b][1] \in Images
        /\ tag'[b] = <<>> /\ dirty'[b] = TRUE /\ tree' = tree \cup {tag[b]}
        /\ UNCHANGED <<layers, missed, todo>>
    BY <1>21 DEF LoadImage, Typed, HarvestTypeOK
  <2>2. AtOne(b)' /\ Fetched(b)'
    BY <1>1, <2>1 DEF AtOne, Fetched
  <2>3. \A k \in Components \ {tag[b][1]} : Harvested_(b, k)' => Harvested_(b, k)
    BY <2>1 DEF Harvested_
  <2>4. AgentsLatest(b)'
    <3>1. \A a \in Agents : Harvested_(b, a)' => Harvested_(b, a)
      BY <2>1, <2>3, KindAssumption DEF Components
    <3> QED
      BY <1>3, <2>1, <3>1 DEF AgentsLatest, AgentsIn, AgentIn, Own, Harvesting
  <2>5. ImagesIn(b, tree)'
    <3> SUFFICES ASSUME NEW i \in Images, Harvested_(b, i)'
                 PROVE  ImageIn(b, i, tree')
      BY <1>4 DEF ImagesIn, ImageIn
    <3>1. CASE i = tag[b][1]
      <4>1. tag[b] = <<i, tag[b][2]>> /\ tag[b][2] \in Recent(b, i)
        BY <2>1, <3>1 DEF AtOne, Typed, Held
      <4> QED
        BY <1>0, <2>1, <4>1 DEF ImageIn
    <3>2. CASE i # tag[b][1]
      BY <1>0, <2>1, <2>3, <3>2 DEF ImagesLatest, ImagesIn, ImageIn, Components
    <3> QED
      BY <3>1, <3>2
  <2>6. ImagesLatest(b)'
    BY <2>1, <2>5 DEF ImagesLatest
  <2> QED
    BY <2>2, <2>4, <2>6
<1>22. CASE EndComponents(b)
  <2>1. /\ pc[b] = "harvest" /\ pc'[b] = IF dirty[b] THEN "pack" ELSE "clean"
        /\ todo[b] = {}
        /\ UNCHANGED <<layers, store, tree, dirty, missed, todo, tag>>
    BY <1>22 DEF EndComponents, Typed
  <2>2. AtOne(b)' /\ Fetched(b)'
    BY <2>1 DEF AtOne, Fetched
  <2>3. \A k \in Components : Harvested_(b, k)' <=> Harvested_(b, k)
    BY <2>1 DEF Harvested_
  <2>4. AgentsLatest(b)'
    BY <1>5, <2>1, <2>3 DEF AgentsLatest, Harvesting
  <2>5. CASE dirty[b]
    BY <1>6, <2>1, <2>2, <2>3, <2>4, <2>5 DEF ImagesLatest
  <2>6. CASE ~dirty[b]
    <3>1. \A i \in Images : ~Harvested_(b, i)'
      BY <2>1, <2>3, <2>6 DEF ImagesLatest, Components
    <3> QED
      BY <2>1, <2>2, <2>4, <2>6, <3>1 DEF ImagesLatest, ImagesIn
  <2> QED
    BY <2>2, <2>4, <2>5, <2>6
<1>23. CASE Pack(b) \/ StoreCopied(b)
  <2>1. /\ pc[b] \in {"pack", "storing"} /\ pc'[b] \in {"storing", "clean"}
        /\ UNCHANGED <<layers, missed, todo, tag>>
    BY <1>23 DEF Pack, StoreCopied, Typed
  <2>2. AtOne(b)' /\ Fetched(b)'
    BY <2>1 DEF AtOne, Fetched
  <2>3. \A k \in Components : Harvested_(b, k)' <=> Harvested_(b, k)
    BY <2>1 DEF Harvested_
  <2>4. AgentsLatest(b)'
    BY <1>5, <2>1, <2>3 DEF AgentsLatest, Harvesting
  <2>5. CASE Pack(b)
    <3>1. /\ pc[b] = "pack" /\ pc'[b] = "storing" /\ packed'[b] = tree
          /\ dirty' = dirty
      BY <2>5 DEF Pack, Typed, HarvestTypeOK
    <3>2. /\ ImagesIn(b, packed[b])'
          /\ \A i \in Images : Harvested_(b, i)' => dirty'[b]
      BY <1>4, <2>3, <3>1 DEF ImagesLatest, ImagesIn, ImageIn, Components
    <3> QED
      BY <2>2, <2>4, <3>1, <3>2 DEF ImagesLatest
  <2>6. CASE StoreCopied(b)
    <3>1. pc[b] = "storing" /\ pc'[b] = "clean" /\ store' = packed[b]
      BY <2>6 DEF StoreCopied, Typed
    <3>2. ImagesIn(b, store)'
      BY <1>4, <2>3, <3>1 DEF ImagesLatest, ImagesIn, ImageIn, Components
    <3> QED
      BY <2>2, <2>4, <3>1, <3>2 DEF ImagesLatest
  <2> QED
    BY <1>23, <2>5, <2>6
<1>24. CASE Clean(b)
  <2>1. /\ pc[b] = "clean" /\ pc'[b] = "edition"
        /\ UNCHANGED <<layers, store, missed, todo, tag>>
    BY <1>24 DEF Clean, Typed
  <2>2. AtOne(b)' /\ Fetched(b)'
    BY <2>1 DEF AtOne, Fetched
  <2>3. \A k \in Components : Harvested_(b, k)' <=> Harvested_(b, k)
    BY <2>1 DEF Harvested_
  <2>4. AgentsLatest(b)'
    BY <1>5, <2>1, <2>3 DEF AgentsLatest, Harvesting
  <2>5. ImagesLatest(b)'
    BY <1>4, <2>1, <2>3 DEF ImagesLatest, ImagesIn, ImageIn, Components
  <2> QED
    BY <2>2, <2>4, <2>5
<1>25. CASE Abort(b)
  <2>1. /\ pc[b] \in {"seed", "got", "copy", "copying", "pack", "storing"}
        /\ pc'[b] = "edition"
        /\ missed'[b] = missed[b] \cup Unharvested(b)
        /\ todo'[b] = {} /\ tag'[b] = <<>>
        /\ UNCHANGED <<layers, store>>
    BY <1>25 DEF Abort, Typed, HarvestTypeOK
  <2>2. AtOne(b)' /\ Fetched(b)'
    BY <2>1 DEF AtOne, Fetched
  <2>3. \A k \in Components : Harvested_(b, k)' => Harvested_(b, k)
    BY <2>1 DEF Harvested_, Unharvested
  <2>4. AgentsLatest(b)'
    BY <1>5, <2>1, <2>3 DEF AgentsLatest, Harvesting
  <2>5. \A i \in Images : ~Harvested_(b, i)'
    <3> SUFFICES ASSUME NEW i \in Images, Harvested_(b, i)' PROVE FALSE
      OBVIOUS
    <3>1. Harvested_(b, i)
      BY <2>3 DEF Components
    <3>2. dirty[b]
      BY <2>1, <3>1 DEF ImagesLatest
    <3> QED
      BY <2>1, <3>2 DEF Harvested_, Unharvested
  <2>6. ImagesLatest(b)'
    BY <2>1, <2>5 DEF ImagesLatest, ImagesIn
  <2> QED
    BY <2>2, <2>4, <2>6
<1> QED
  BY <1>10, <1>12, <1>13, <1>14, <1>15, <1>16, <1>17, <1>18, <1>19,
     <1>20, <1>21, <1>22, <1>23, <1>24, <1>25 DEF HarvestStep

(* A step that touches neither the inputs nor this build. *)
LEMMA LatestCalm ==
  ASSUME Typed, Typed', NEW b \in Builds, Latest(b),
         UNCHANGED <<inputs, tree, assets, unpacked, locals, history>>,
         UNCHANGED <<pc[b], volume[b], edition[b]>>,
         \A c \in Components : latest[c] <= latest'[c]
  PROVE  Latest(b)'
<1> USE DEF inputs, locals, history
<1>1. \A c \in Components : Recent(b, c) \subseteq Recent(b, c)'
  BY DEF Recent, Typed, HarvestTypeOK
<1>2. \A a \in Agents : \A ls : AgentIn(b, a, ls) =>
        \E v \in Recent(b, a)' : \A x \in BinariesOf[a] : ls[x] = v
  BY <1>1 DEF AgentIn, Components
<1>3. \A i \in Images : \A is : ImageIn(b, i, is) =>
        is # Torn /\ \E v \in Recent(b, i)' : <<i, v>> \in is
  BY <1>1 DEF ImageIn, Components
<1>4. \A c : Harvested_(b, c)' <=> Harvested_(b, c)
  BY DEF Harvested_
<1>5. AtOne(b)'
  <2>1. \A c \in Components : asked[b][c] <= latest[c] => asked'[b][c] <= latest'[c]
    BY DEF Typed, HarvestTypeOK
  <2>2. pc[b] \in {"found", "got", "copy", "copying"} => tag[b][1] \in Components
    BY DEF Typed, Held
  <2> QED
    BY <1>1, <2>1, <2>2 DEF Latest, AtOne
<1>6. Fetched(b)'
  BY DEF Latest, Fetched
<1>7. AgentsLatest(b)'
  BY <1>2, <1>4 DEF Latest, AgentsLatest, AgentsIn, AgentIn, Own
<1>8. ImagesLatest(b)'
  BY <1>3, <1>4 DEF Latest, ImagesLatest, ImagesIn, ImageIn
<1>9. VolumeLatest(b)'
  BY VolumeStays DEF Latest
<1> QED
  BY <1>5, <1>6, <1>7, <1>8, <1>9 DEF Latest

(* A build that has met none still has the inputs to itself, since one     *)
(* that begins beside it meets it.                                         *)
LEMMA ApartStep ==
  ASSUME Typed, [Next]_vars, NEW b \in Builds, Apart(b), b \notin met'
  PROVE  Apart(b)'
<1> USE DEF harvestVars, outputs
<1> DEFINE In == Harvesting \cup {"edition", "volume"}
<1>1. ASSUME NEW d \in Builds, BeginHarvest(d) PROVE Apart(b)'
  <2>1. pc' = [pc EXCEPT ![d] = "seed"] /\ b \notin Using /\ (b = d => Using = {})
    BY <1>1 DEF BeginHarvest, Goto
  <2> QED
    BY <2>1 DEF Typed, Apart, Using
<1>2. ASSUME NEW d \in Builds, NEW t, pc' = [pc EXCEPT ![d] = t], d \in Using \/ t \notin In
      PROVE  Apart(b)'
  BY <1>2 DEF Typed, Apart, Using
<1>3. ASSUME pc' = pc PROVE Apart(b)'
  BY <1>3 DEF Apart, Using
<1>4. ASSUME NEW d \in Builds, HarvestStep(d) PROVE Apart(b)'
  <2>1. d \in Using
    BY <1>4 DEF HarvestStep, Seed, CannotSeed, Lookup, Skip, Download,
       DownloadFails, Unpack, BinaryCopied, EndAgent, CopyBinary, SkipBinary,
       LoadImage, EndComponents, Pack, StoreCopied, Clean, Abort, Goto, Using,
       Harvesting
  <2>2. \E t : pc' = [pc EXCEPT ![d] = t]
    BY <1>4 DEF HarvestStep, Seed, CannotSeed, Lookup, Skip, Download,
       DownloadFails, Unpack, BinaryCopied, EndAgent, CopyBinary, SkipBinary,
       LoadImage, EndComponents, Pack, StoreCopied, Clean, Abort, Goto, Typed
  <2> QED
    BY <1>2, <2>1, <2>2
<1>5. ASSUME NEW d \in Builds, PipelineStep(d) PROVE Apart(b)'
  <2>1. CASE ComposeEdition(d) \/ WrapVolume(d)
    BY <1>2, <2>1 DEF ComposeEdition, WrapVolume, Goto, Using
  <2>2. CASE WriteRaw(d) \/ StepFails(d)
    BY <1>2, <2>2 DEF WriteRaw, StepFails, Goto, Harvesting
  <2>3. ASSUME NEW f \in Both, Convert(d, f) \/ ConvertFails(d, f) PROVE Apart(b)'
    BY <1>2, <2>3 DEF Convert, ConvertFails, Next_, Goto, Harvesting
  <2>4. CASE DropRaw(d) \/ CannotDropRaw(d) \/ Register(d) \/ CannotMeasure(d)
    BY <1>2, <2>4 DEF DropRaw, CannotDropRaw, Register, CannotMeasure, Goto, Harvesting
  <2> QED
    BY <1>5, <2>1, <2>2, <2>3, <2>4 DEF PipelineStep, Both
<1>6. ASSUME NEW r \in Builds,
             Retire(r) \/ Forget(r) \/ \E f \in Forms : RemoveFile(r, f)
      PROVE  Apart(b)'
  BY <1>3, <1>6 DEF Retire, Forget, RemoveFile
<1>7. ASSUME NEW c \in Components, Publish(c) PROVE Apart(b)'
  BY <1>3, <1>7 DEF Publish
<1>8. CASE Crash
  BY <1>8 DEF Crash, Running, Apart, Using, Harvesting
<1>9. CASE UNCHANGED vars
  BY <1>3, <1>9 DEF vars
<1> QED
  BY <1>1, <1>4, <1>5, <1>6, <1>7, <1>8, <1>9 DEF Next

LEMMA LatestStep ==
  ASSUME TornIsNoSet
  PROVE  LatestInv /\ [Next]_vars => LatestInv'
<1> SUFFICES ASSUME Typed, Typed', [Next]_vars, NEW b \in Builds, b \notin met',
                    Apart(b), Latest(b)
             PROVE  Latest(b)'
  BY TypedStep, FaultsStay, ApartStep DEF LatestInv
<1> USE DEF rest, harvestVars, outputs, directory
<1>1. Typed /\ Typed' /\ Latest(b)
  OBVIOUS
<1>2. \A c \in Components : latest[c] \in Nat /\ latest[c] <= latest[c]
  BY <1>1 DEF Typed, HarvestTypeOK
<1>3. pc[b] = "idle" => tag[b] = <<>>
  BY <1>1 DEF Latest, AtOne
<1>4. ASSUME NEW c \in Components, Publish(c), UNCHANGED outputs PROVE Latest(b)'
  <2>1. \A k \in Components : latest[k] <= latest'[k]
    BY <1>1, <1>2, <1>4 DEF Publish, Typed, HarvestTypeOK
  <2> QED
    BY <1>1, <1>4, <2>1, LatestCalm DEF Publish
<1>5. ASSUME NEW d \in Builds, BeginHarvest(d), UNCHANGED outputs PROVE Latest(b)'
  <2>1. /\ b \notin Using /\ pc[d] = "idle" /\ pc' = [pc EXCEPT ![d] = "seed"]
        /\ UNCHANGED <<latest, tag, missed>>
        /\ todo' = [todo EXCEPT ![d] = Components]
        /\ asked' = [asked EXCEPT ![d] = latest]
    BY <1>5 DEF BeginHarvest, Goto, locals
  <2>2. CASE b = d
    <3>1. /\ pc'[b] = "seed" /\ todo'[b] = Components /\ tag'[b] = <<>>
          /\ asked'[b] = latest /\ volume'[b] = {}
      BY <1>1, <1>3, <1>5, <2>1, <2>2 DEF Typed, HarvestTypeOK, Latest, VolumeLatest
    <3>2. AtOne(b)' /\ Fetched(b)'
      BY <1>2, <2>1, <3>1 DEF AtOne, Fetched
    <3>3. \A c \in Components : ~Harvested_(b, c)'
      BY <3>1 DEF Harvested_
    <3>4. AgentsLatest(b)' /\ ImagesLatest(b)'
      BY <3>1, <3>3 DEF AgentsLatest, ImagesLatest, AgentsIn, ImagesIn, Components
    <3>5. VolumeLatest(b)'
      BY <3>1 DEF VolumeLatest, HasStore
    <3> QED
      BY <3>2, <3>4, <3>5 DEF Latest
  <2>3. CASE b # d
    <3>1. /\ pc'[b] = pc[b] /\ asked'[b] = asked[b]
          /\ pc[b] \notin Harvesting \cup {"edition", "volume"}
      BY <1>1, <2>1, <2>3 DEF Using, Typed, HarvestTypeOK
    <3>2. VolumeLatest(b)'
      BY <1>1, <1>2, <1>5, <2>1, <3>1, VolumeStays DEF Latest
    <3> QED
      BY <1>3, <2>1, <3>1, <3>2, LatestElsewhere
  <2> QED
    BY <2>2, <2>3
<1>6. ASSUME NEW d \in Builds, HarvestStep(d), UNCHANGED outputs PROVE Latest(b)'
  <2>1. d \in Using
    BY <1>6 DEF HarvestStep, Seed, CannotSeed, Lookup, Skip, Download,
       DownloadFails, Unpack, BinaryCopied, EndAgent, CopyBinary, SkipBinary,
       LoadImage, EndComponents, Pack, StoreCopied, Clean, Abort, Goto, Using,
       Harvesting
  <2>2. /\ latest' = latest /\ asked' = asked
        /\ \E t \in Harvesting \cup {"edition"} : pc' = [pc EXCEPT ![d] = t]
    BY <1>1, <1>6 DEF HarvestStep, Seed, CannotSeed, Lookup, Skip, Download,
       DownloadFails, Unpack, BinaryCopied, EndAgent, CopyBinary, SkipBinary,
       LoadImage, EndComponents, Pack, StoreCopied, Clean, Abort, Goto,
       Harvesting, Typed, history
  <2>3. CASE b = d
    <3>1. volume[b] = {} /\ volume'[b] = {} /\ pc'[b] \in Harvesting \cup {"edition"}
      BY <1>1, <1>6, <2>1, <2>2, <2>3 DEF Latest, VolumeLatest, Using, Typed
    <3>2. VolumeLatest(b)'
      BY <3>1 DEF VolumeLatest, HasStore
    <3> QED
      BY <1>1, <1>6, <2>3, <3>2, HarvestLatest DEF Latest
  <2>4. CASE b # d
    <3>1. pc'[b] = pc[b] /\ pc[b] \notin Harvesting \cup {"edition", "volume"}
      BY <1>1, <2>1, <2>2, <2>4 DEF Apart, Using, Typed
    <3>2. missed'[b] = missed[b] /\ tag'[b] = tag[b]
      BY <1>1, <1>6, <2>4 DEF HarvestStep, Seed, CannotSeed, Lookup, Skip, Download,
         DownloadFails, Unpack, BinaryCopied, EndAgent, CopyBinary, SkipBinary,
         LoadImage, EndComponents, Pack, StoreCopied, Clean, Abort, history,
         locals, Typed, HarvestTypeOK
    <3>3. VolumeLatest(b)'
      BY <1>1, <1>2, <1>6, <2>2, <3>1, <3>2, VolumeStays DEF Latest
    <3> QED
      BY <1>3, <3>1, <3>2, <3>3, LatestElsewhere
  <2> QED
    BY <2>3, <2>4
<1>7. ASSUME NEW d \in Builds \ {b}, PipelineStep(d) PROVE Latest(b)'
  <2>1. /\ pc'[b] = pc[b] /\ edition'[b] = edition[b] /\ volume'[b] = volume[b]
        /\ UNCHANGED rest
    BY <1>1, <1>7 DEF PipelineStep, ComposeEdition, WrapVolume, WriteRaw,
       StepFails, Convert, ConvertFails, DropRaw, CannotDropRaw, Register,
       CannotMeasure, Goto, Typed, OutputTypeOK, ComposedOK
  <2> QED
    BY <1>1, <1>2, <2>1, LatestCalm
<1>8. CASE ComposeEdition(b)
  <2>1. /\ pc[b] = "edition" /\ pc'[b] = "volume" /\ edition'[b] = layers
        /\ volume'[b] = volume[b] /\ UNCHANGED rest
    BY <1>1, <1>8 DEF ComposeEdition, Goto, Typed, OutputTypeOK, ComposedOK
  <2> USE DEF inputs, locals, history
  <2>2. AtOne(b)' /\ Fetched(b)'
    BY <1>1, <2>1 DEF Latest, AtOne, Fetched
  <2>3. \A c : Harvested_(b, c)' <=> Harvested_(b, c)
    BY <2>1 DEF Harvested_
  <2>4. AgentsLatest(b)'
    BY <1>1, <2>1, <2>3 DEF Latest, AgentsLatest, AgentsIn, AgentIn, Own, Recent,
       Harvesting
  <2>5. ImagesLatest(b)'
    BY <1>1, <2>1, <2>3 DEF Latest, ImagesLatest, ImagesIn, ImageIn, Recent
  <2>6. VolumeLatest(b)'
    BY <1>1, <2>1 DEF Latest, VolumeLatest, HasStore
  <2> QED
    BY <2>2, <2>4, <2>5, <2>6 DEF Latest
<1>9. CASE WrapVolume(b)
  <2>1. /\ pc[b] = "volume" /\ pc'[b] = "boot" /\ volume'[b] = store
        /\ edition'[b] = edition[b] /\ UNCHANGED rest
    BY <1>1, <1>9 DEF WrapVolume, Goto, Typed, OutputTypeOK, ComposedOK
  <2>2. todo[b] = {} /\ tag[b] = <<>>
    BY <1>1, <2>1 DEF Latest, AtOne
  <2>3. \A a \in Agents \ missed[b] : Own(a) => AgentIn(b, a, edition[b])
    BY <1>1, <2>1, <2>2 DEF Latest, AgentsLatest, AgentsIn, Harvested_
  <2>4. \A i \in Images \ missed[b] : ImageIn(b, i, store)
    BY <1>1, <2>1, <2>2 DEF Latest, ImagesLatest, ImagesIn, Harvested_
  <2>5. VolumeLatest(b)'
    BY <2>1, <2>3, <2>4 DEF VolumeLatest, AgentIn, ImageIn, Recent, Own, history,
       Harvesting
  <2> QED
    BY <2>1, <2>5, LatestElsewhere DEF Harvesting
<1>10. ASSUME PipelineStep(b), ~ComposeEdition(b), ~WrapVolume(b) PROVE Latest(b)'
  <2>1. /\ pc'[b] \notin Harvesting \cup {"idle", "edition", "volume"}
        /\ edition'[b] = edition[b] /\ volume'[b] = volume[b] /\ UNCHANGED rest
    <3>1. CASE WriteRaw(b) \/ StepFails(b)
      BY <1>1, <3>1 DEF WriteRaw, StepFails, Goto, Typed, Harvesting
    <3>2. ASSUME NEW f \in Both, Convert(b, f) \/ ConvertFails(b, f)
          PROVE  /\ pc'[b] \notin Harvesting \cup {"idle", "edition", "volume"}
                 /\ edition'[b] = edition[b] /\ volume'[b] = volume[b]
                 /\ UNCHANGED rest
      BY <1>1, <3>2 DEF Convert, ConvertFails, Next_, Goto, Typed, Harvesting
    <3>3. CASE DropRaw(b) \/ CannotDropRaw(b) \/ Register(b) \/ CannotMeasure(b)
      BY <1>1, <3>3 DEF DropRaw, CannotDropRaw, Register, CannotMeasure, Goto,
         Typed, Harvesting
    <3> QED
      BY <1>10, <3>1, <3>2, <3>3 DEF PipelineStep, Both
  <2>2. VolumeLatest(b)'
    BY <1>1, <1>2, <2>1, VolumeStays DEF Latest, history
  <2> QED
    BY <2>1, <2>2, LatestElsewhere
<1>11. ASSUME NEW r \in Builds,
              Retire(r) \/ Forget(r) \/ \E f \in Forms : RemoveFile(r, f)
       PROVE  Latest(b)'
  <2>1. UNCHANGED <<rest, pc, edition, volume>>
    BY <1>11 DEF Retire, Forget, RemoveFile
  <2> QED
    BY <1>1, <1>2, <2>1, LatestCalm
<1>12. CASE Crash
  <2>1. /\ pc'[b] = IF b \in Running THEN "dead" ELSE pc[b]
        /\ tag'[b] = <<>> /\ UNCHANGED <<latest, history, edition, volume>>
    BY <1>12 DEF Crash
  <2>2. /\ pc'[b] \notin Harvesting \cup {"edition", "volume"}
        /\ pc'[b] = "idle" => pc[b] = "idle"
    BY <2>1 DEF Running, Harvesting
  <2>3. VolumeLatest(b)'
    BY <1>1, <1>2, <2>1, <2>2, VolumeStays DEF Latest, history
  <2> QED
    BY <2>1, <2>2, <2>3, LatestElsewhere
<1>13. CASE UNCHANGED vars
  BY <1>1, <1>2, <1>13, LatestCalm DEF vars
<1> QED
  BY <1>4, <1>5, <1>6, <1>7, <1>8, <1>9, <1>10, <1>11, <1>12, <1>13 DEF Next

(* Every image has the latest release of each component its log does not   *)
(* say it went without, complete and unmixed, unless another build used    *)
(* the inputs with it -- whatever failed, died or met before.              *)
THEOREM LatestReleasesComposed ==
  ASSUME TornIsNoSet
  PROVE  Spec => []LatestComposed
<1>1. LatestInv => LatestComposed
  <2> SUFFICES ASSUME LatestInv, NEW b \in HasStore \ met
               PROVE  /\ \A a \in Agents \ missed[b] : Own(a) => AgentIn(b, a, edition[b])
                      /\ \A i \in Images \ missed[b] : ImageIn(b, i, volume[b])
    BY DEF LatestComposed, AgentIn, ImageIn
  <2>1. b \in Builds
    BY DEF HasStore
  <2> QED
    BY <2>1 DEF LatestInv, Latest, VolumeLatest
<1>2. Init => LatestInv
  BY LatestInit
<1>3. LatestInv /\ [Next]_vars => LatestInv'
  BY LatestStep
<1> QED
  BY <1>1, <1>2, <1>3, PTL DEF Spec

=============================================================================
