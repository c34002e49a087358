-------------------------- MODULE BuildJobsProofs --------------------------
(***************************************************************************)
(* Theorems about BuildJobs for every set of builds, every keep_releases,  *)
(* any number of crashes and any clock.                                    *)
(***************************************************************************)
EXTENDS BuildJobs, FiniteSetTheorems, TLAPS

-----------------------------------------------------------------------------
(* Type correctness                                                        *)

LEMMA TypeInit == Init => TypeOK
  BY KnobAssumption DEF Init, TypeOK, Registered, Stages

LEMMA TypeNext == TypeOK /\ [Next]_vars => TypeOK'
<1> SUFFICES ASSUME TypeOK, [Next]_vars PROVE TypeOK'
  OBVIOUS
<1> USE DEF TypeOK, Registered
<1>1. ASSUME NEW b \in Builds, Start(b) PROVE TypeOK'
  BY <1>1 DEF Start, Goto, Stages, locals
<1>2. ASSUME NEW b \in Builds, Compose(b) \/ Assemble(b) \/ PipelineFails(b)
      PROVE TypeOK'
  BY <1>2 DEF Compose, Assemble, PipelineFails, Goto, Stages, state, locals,
              Files, Scratch, Image, BeforePrune
<1>3. ASSUME NEW b \in Builds, RecordSuccess(b) PROVE TypeOK'
  BY <1>3 DEF RecordSuccess, Goto, Stages, BeforePrune, locals
<1>4. ASSUME NEW b \in Builds, RecordFailure(b) PROVE TypeOK'
  BY <1>4 DEF RecordFailure, Goto, Stages, BeforePrune, state, locals
<1>5. ASSUME NEW b \in Builds, ReadRunning(b) \/ ReadAdvertised(b) PROVE TypeOK'
  BY <1>5 DEF ReadRunning, ReadAdvertised, Goto, Stages, BeforePrune, state,
              Files, Image
<1>6. ASSUME NEW b \in Builds, OpenImages(b) PROVE TypeOK'
  BY <1>6 DEF OpenImages, Goto, Stages, BeforePrune, state
<1>7. ASSUME NEW b \in Builds, SweepEntry(b) \/ SkipEntry(b) \/ PruneFile(b)
      PROVE TypeOK'
  BY <1>7 DEF SweepEntry, SkipEntry, PruneFile, state
<1>8. ASSUME NEW b \in Builds, EndSweep(b) \/ CannotOpenImages(b) \/ NothingToPrune(b)
      PROVE  TypeOK'
  BY <1>8 DEF EndSweep, CannotOpenImages, NothingToPrune, Goto, Stages,
     BeforePrune, state, locals
<1>9. ASSUME NEW b \in Builds, ReadDoomed(b) PROVE TypeOK'
  BY <1>9 DEF ReadDoomed, Doomed, Goto, Stages, Pruning, state
<1>10. ASSUME NEW b \in Builds, ReadPaths(b) PROVE TypeOK'
  BY <1>10 DEF ReadPaths, Goto, Stages, Pruning, state, Files, Image, Scratch
<1>11. ASSUME NEW b \in Builds, PruneRecords(b) PROVE TypeOK'
  BY <1>11 DEF PruneRecords, Goto, Stages
<1>12. CASE Tick
  BY <1>12 DEF Tick, state, locals
<1>13. CASE Crash
  BY <1>13 DEF Crash, state, Stages
<1>14. CASE UNCHANGED vars
  BY <1>14 DEF vars, state, locals
<1> QED
  BY <1>1, <1>2, <1>3, <1>4, <1>5, <1>6, <1>7, <1>8, <1>9, <1>10, <1>11,
     <1>12, <1>13, <1>14 DEF Next, JobStep

(* Every reachable state is well typed, and releases holds only what was   *)
(* pushed.                                                                 *)
THEOREM TypeCorrect == Spec => []TypeOK
  BY TypeInit, TypeNext, PTL DEF Spec

-----------------------------------------------------------------------------
(* Registering a release never moves an earlier one up: its rank among all *)
(* releases ever pushed only grows.                                        *)

LEMMA SmallerRank ==
  ASSUME NEW S, NEW T, S \subseteq T, IsFiniteSet(T), NEW r
  PROVE  /\ Rank(S, r) \in Nat
         /\ Rank(T, r) \in Nat
         /\ Rank(S, r) <= Rank(T, r)
<1>1. Above(S, r) \subseteq Above(T, r) /\ Above(T, r) \subseteq T
  BY DEF Above
<1>2. IsFiniteSet(Above(T, r))
  BY <1>1, FS_Subset
<1>3. Above(S, r) \in SUBSET Above(T, r)
  BY <1>1
<1>4. IsFiniteSet(Above(S, r))
  BY <1>2, <1>3, FS_Subset
<1>5. Cardinality(Above(S, r)) <= Cardinality(Above(T, r))
  BY <1>2, <1>3, FS_Subset
<1> QED
  BY <1>2, <1>4, <1>5, FS_CardinalityType DEF Rank

(* Pushes are numbered in order, and a task that has yet to register its   *)
(* release has not been numbered.                                          *)
Early == {"idle", "started", "composing", "built", "failed"}
Numbered ==
  /\ IsFiniteSet(Registered)
  /\ \A q \in Builds : position[q] <= pushes
  /\ \A b \in Builds : pc[b] \in Early => position[b] = 0

(* Only RecordSuccess touches the order; no other step adds a record. *)
LEMMA OrderKept ==
  ASSUME TypeOK, [Next]_vars, \A b \in Builds : ~RecordSuccess(b)
  PROVE  /\ UNCHANGED <<created, position, pushes>>
         /\ releases' \subseteq releases
<1>1. ASSUME NEW b \in Builds, Start(b)
      PROVE UNCHANGED <<created, position, pushes, releases>>
  BY <1>1 DEF Start
<1>2. ASSUME NEW b \in Builds, JobStep(b), ~PruneRecords(b)
      PROVE UNCHANGED <<created, position, pushes, releases>>
  BY <1>2 DEF JobStep, Compose, Assemble, PipelineFails, RecordFailure,
     ReadRunning, ReadAdvertised, OpenImages, SweepEntry, SkipEntry, EndSweep,
     CannotOpenImages, NothingToPrune, ReadDoomed, ReadPaths, PruneFile, state
<1>3. ASSUME NEW b \in Builds, PruneRecords(b)
      PROVE UNCHANGED <<created, position, pushes>> /\ releases' \subseteq releases
  BY <1>3 DEF PruneRecords
<1>4. CASE Tick \/ Crash \/ UNCHANGED vars
  BY <1>4 DEF Tick, Crash, vars, state
<1> QED
  BY <1>1, <1>2, <1>3, <1>4 DEF Next

LEMMA NumberedInit == Init => Numbered
  BY FS_EmptySet DEF Init, Numbered, Registered

LEMMA NumberedNext == TypeOK /\ Numbered /\ [Next]_vars => Numbered'
<1> SUFFICES ASSUME TypeOK, Numbered, [Next]_vars PROVE Numbered'
  OBVIOUS
<1>1. ASSUME NEW b \in Builds, RecordSuccess(b) PROVE Numbered'
  <2>1. Registered' = Registered \cup {b}
    BY <1>1 DEF RecordSuccess, Registered, TypeOK
  <2>2. IsFiniteSet(Registered)'
    BY <2>1, FS_AddElement DEF Numbered
  <2>3. \A q \in Builds : position'[q] <= pushes'
    BY <1>1 DEF RecordSuccess, Numbered, TypeOK
  <2>4. \A x \in Builds : pc'[x] \in Early => position'[x] = 0
    BY <1>1 DEF RecordSuccess, Goto, Numbered, TypeOK, Early
  <2> QED
    BY <2>2, <2>3, <2>4 DEF Numbered
<1>2. CASE \A b \in Builds : ~RecordSuccess(b)
  <2>1. UNCHANGED <<created, position, pushes>>
    BY <1>2, OrderKept
  <2> DEFINE NoneBack == \A x \in Builds : pc'[x] \in Early => pc[x] \in Early
  <2>2. NoneBack
    <3>1. ASSUME NEW b \in Builds, Start(b) PROVE NoneBack
      BY <3>1 DEF Start, Goto, TypeOK, Early
    <3>2. ASSUME NEW b \in Builds, JobStep(b) PROVE NoneBack
      BY <3>2, <1>2 DEF JobStep, Compose, Assemble, PipelineFails,
         RecordFailure, ReadRunning, ReadAdvertised, OpenImages,
         SweepEntry, SkipEntry, EndSweep, CannotOpenImages, NothingToPrune, ReadDoomed,
         ReadPaths, PruneFile, PruneRecords, Goto, TypeOK, Early
    <3>3. CASE Tick \/ Crash \/ UNCHANGED vars
      BY <3>3 DEF Tick, Crash, vars, Early, TypeOK
    <3> QED
      BY <3>1, <3>2, <3>3 DEF Next
  <2> QED
    BY <2>1, <2>2 DEF Numbered, Registered
<1> QED
  BY <1>1, <1>2

(* What RecordSuccess leaves alone of the order. *)
LEMMA OthersKeepTheirPlace ==
  ASSUME TypeOK, Numbered, NEW b \in Builds, RecordSuccess(b)
  PROVE  /\ b \notin Registered
         /\ Registered' = Registered \cup {b}
         /\ releases' = releases \cup {b}
         /\ \A q \in Builds \ {b} : /\ created'[q] = created[q]
                                    /\ position'[q] = position[q]
         /\ position'[b] = pushes + 1
         /\ \A x \in Builds \ {b} : pc'[x] = pc[x]
         /\ pc'[b] = "qa"
         /\ UNCHANGED <<disk, doomed, todo>>
  BY DEF RecordSuccess, Goto, Registered, TypeOK, Numbered, Early, locals

-----------------------------------------------------------------------------
(* Nobody forgets a release beyond keep_releases                           *)

LEMMA ExcessInit == Init => ExcessOwned
  BY DEF Init, ExcessOwned

LEMMA ExcessNext ==
  TypeOK /\ Numbered /\ ExcessOwned /\ [Next]_vars => ExcessOwned'
<1> SUFFICES ASSUME TypeOK, Numbered, ExcessOwned, [Next]_vars,
                    NEW r \in releases', NEW m \in Registered',
                    Keep > 0, FlavorOf[m] = FlavorOf[r], Latest(m)',
                    Rank(releases, r)' >= Keep
             PROVE  \/ pc'[m] \in BeforePrune \cup {"dead"}
                    \/ pc'[m] \in Pruning /\ r \in doomed'[m]
  BY DEF ExcessOwned
<1>1. ASSUME NEW b \in Builds, RecordSuccess(b)
      PROVE  \/ pc'[m] \in BeforePrune \cup {"dead"}
             \/ pc'[m] \in Pruning /\ r \in doomed'[m]
  <2> USE OthersKeepTheirPlace, <1>1
  <2>1. CASE m = b
    BY <2>1 DEF BeforePrune
  <2>2. CASE m # b
    <3>1. m \in Registered /\ m \in Builds
      BY <2>2 DEF Registered
    <3>2. FlavorOf[m] # FlavorOf[b]
      <4>1. position[m] <= pushes /\ pushes \in Nat /\ position[m] \in Nat
        BY <3>1 DEF Numbered, TypeOK
      <4>2. position'[m] = position[m] /\ position'[b] = pushes + 1
        BY <2>2, <3>1
      <4>3. b \in Registered'
        OBVIOUS
      <4>4. FlavorOf[b] = FlavorOf[m] => position'[b] <= position'[m]
        BY <4>3 DEF Latest
      <4> QED
        BY <4>1, <4>2, <4>4
    <3>3. r # b /\ r \in releases /\ r \in Registered
      BY <3>2 DEF TypeOK
    <3>4. Latest(m)
      <4>1. ASSUME NEW q \in Registered, FlavorOf[q] = FlavorOf[m]
            PROVE  position[q] <= position[m]
        <5>1. position'[q] <= position'[m] /\ q \in Builds /\ q # b
          BY <4>1, <3>2 DEF Latest, Registered
        <5> QED
          BY <5>1, <3>1, <2>2
      <4> QED
        BY <4>1 DEF Latest
    <3>5. Above(releases, r)' = Above(releases, r)
      BY <3>2, <3>3 DEF Above, Newer, Registered, TypeOK
    <3>6. Rank(releases, r) >= Keep
      BY <3>5 DEF Rank
    <3>7. \/ pc[m] \in BeforePrune \cup {"dead"}
          \/ pc[m] \in Pruning /\ r \in doomed[m]
      BY <3>1, <3>3, <3>4, <3>6 DEF ExcessOwned
    <3> QED
      BY <3>7, <3>1, <2>2
  <2> QED
    BY <2>1, <2>2
<1>2. CASE \A b \in Builds : ~RecordSuccess(b)
  <2>1. UNCHANGED <<created, position, pushes>> /\ releases' \subseteq releases
    BY <1>2, OrderKept
  <2>2. m \in Registered /\ m \in Builds /\ Latest(m)
    BY <2>1 DEF Registered, Latest
  <2>3. r \in releases /\ r \in Builds
    BY <2>1 DEF TypeOK, Registered
  <2>4. Rank(releases, r) >= Keep
    <3>1. Above(releases, r)' = Above(releases', r)
      BY <2>1 DEF Above, Newer
    <3>2. IsFiniteSet(releases)
      BY FS_Subset DEF TypeOK, Numbered
    <3>3. Rank(releases, r)' = Rank(releases', r)
      BY <3>1 DEF Rank
    <3>4. /\ Rank(releases', r) <= Rank(releases, r)
          /\ Rank(releases', r) \in Nat
          /\ Rank(releases, r) \in Nat
      BY <2>1, <3>2, SmallerRank
    <3>5. Rank(releases', r) >= Keep
      BY <3>3
    <3> QED
      BY <3>4, <3>5, KnobAssumption
  <2>5. \/ pc[m] \in BeforePrune \cup {"dead"}
        \/ pc[m] \in Pruning /\ r \in doomed[m]
    BY <2>2, <2>3, <2>4 DEF ExcessOwned
  <2> DEFINE Owned == \/ pc'[m] \in BeforePrune \cup {"dead"}
                      \/ pc'[m] \in Pruning /\ r \in doomed'[m]
  <2>6. ASSUME NEW b \in Builds, Start(b) PROVE Owned
    BY <2>5, <2>2, <2>6 DEF Start, Goto, TypeOK, BeforePrune, Pruning, locals
  <2>7. ASSUME NEW b \in Builds, Compose(b) \/ Assemble(b) \/ PipelineFails(b)
                                   \/ RecordFailure(b)
        PROVE Owned
    BY <2>5, <2>2, <2>7 DEF Compose, Assemble, PipelineFails, RecordFailure,
       Goto, TypeOK, BeforePrune, Pruning, locals
  <2>8. ASSUME NEW b \in Builds, ReadRunning(b) \/ ReadAdvertised(b)
                                   \/ OpenImages(b) \/ CannotOpenImages(b)
                                   \/ EndSweep(b)
        PROVE Owned
    BY <2>5, <2>2, <2>8 DEF ReadRunning, ReadAdvertised, OpenImages,
       EndSweep, CannotOpenImages, Goto, TypeOK, BeforePrune, Pruning, locals
  <2>9. ASSUME NEW b \in Builds, SweepEntry(b) \/ SkipEntry(b) \/ PruneFile(b)
        PROVE Owned
    BY <2>5, <2>9 DEF SweepEntry, SkipEntry, PruneFile
  <2>10. ASSUME NEW b \in Builds, NothingToPrune(b) PROVE Owned
    <3>1. m # b
      <4>1. b = m => r \in Doomed(FlavorOf[b])
        BY <2>3, <2>4 DEF Doomed
      <4>2. Doomed(FlavorOf[b]) = {} /\ pc[b] = "prune"
        BY <2>10, KnobAssumption DEF NothingToPrune, Goto
      <4> QED
        BY <4>1, <4>2
    <3> QED
      BY <3>1, <2>10, <2>5, <2>2 DEF NothingToPrune, Goto, TypeOK, locals
  <2>11. ASSUME NEW b \in Builds, ReadDoomed(b) PROVE Owned
    <3>1. r \in Doomed(FlavorOf[m])
      BY <2>3, <2>4 DEF Doomed
    <3> QED
      BY <3>1, <2>11, <2>5, <2>2 DEF ReadDoomed, Goto, TypeOK, Pruning, BeforePrune
  <2>12. ASSUME NEW b \in Builds, ReadPaths(b) PROVE Owned
    BY <2>12, <2>5, <2>2 DEF ReadPaths, Goto, TypeOK, Pruning, BeforePrune
  <2>13. ASSUME NEW b \in Builds, PruneRecords(b) PROVE Owned
    BY <2>13, <2>5, <2>2 DEF PruneRecords, Goto, TypeOK, Pruning, BeforePrune
  <2>14. CASE Tick \/ UNCHANGED vars
    BY <2>14, <2>5 DEF Tick, vars, locals
  <2>15. CASE Crash
    BY <2>15, <2>5, <2>2 DEF Crash, TypeOK, Pruning, BeforePrune
  <2> QED
    BY <1>2, <2>6, <2>7, <2>8, <2>9, <2>10, <2>11, <2>12, <2>13, <2>14, <2>15
       DEF Next, JobStep
<1> QED
  BY <1>1, <1>2

(* A release beyond keep_releases always has an owner: the latest build of *)
(* its flavor, unless the service died under it.                           *)
THEOREM ExcessHasOwner == Spec => []ExcessOwned
<1>1. Init => TypeOK /\ Numbered /\ ExcessOwned
  BY TypeInit, NumberedInit, ExcessInit
<1>2. TypeOK /\ Numbered /\ ExcessOwned /\ [Next]_vars
        => (TypeOK /\ Numbered /\ ExcessOwned)'
  BY TypeNext, NumberedNext, ExcessNext
<1> QED
  BY <1>1, <1>2, PTL DEF Spec

-----------------------------------------------------------------------------
(* The newest keep_releases releases survive                               *)

(* r is beyond keep_releases among all releases ever pushed.  A prune acts *)
(* on a snapshot, but it can only have picked such releases, and being     *)
(* beyond is for ever.                                                     *)
Beyond(r) == Rank(Registered, r) >= Keep

Marked == \A b \in Builds : \A r \in doomed[b] : r \in Registered /\ Beyond(r)
Removed == \A r \in Registered \ releases : Beyond(r)
Visited == \A b, r \in Builds :
             (pc[b] = "pruning" /\ Image(r) \in todo[b]) => r \in doomed[b]
HasImage(r) == Image(r) \in disk \/ FlavorOf[r] \in PrefixFlavors
Imaged ==
  /\ \A b \in Builds : pc[b] = "built" => HasImage(b)
  /\ \A r \in Registered : HasImage(r) \/ Beyond(r)

KeptInv == TypeOK /\ Numbered /\ Marked /\ Removed /\ Visited /\ Imaged

LEMMA KeptInit == Init => KeptInv
  BY TypeInit, NumberedInit
     DEF KeptInv, Init, Marked, Removed, Visited, Imaged, Registered

LEMMA KeptImplies == KeptInv => NewestKept
<1> SUFFICES ASSUME KeptInv, NEW r \in Registered, Rank(Registered, r) < Keep
             PROVE  r \in releases /\ HasImage(r)
  BY DEF NewestKept, HasImage
<1>1. Rank(Registered, r) \in Nat
  BY SmallerRank DEF KeptInv, Numbered
<1>2. ~Beyond(r)
  BY <1>1, KnobAssumption DEF Beyond
<1> QED
  BY <1>2 DEF KeptInv, Removed, Imaged

LEMMA BeyondForever ==
  ASSUME TypeOK, Numbered, [Next]_vars, NEW r \in Registered
  PROVE  r \in Registered' /\ (Beyond(r) => Beyond(r)')
<1>1. ASSUME NEW b \in Builds, RecordSuccess(b)
      PROVE r \in Registered' /\ (Beyond(r) => Beyond(r)')
  <2> USE OthersKeepTheirPlace, <1>1
  <2>1. Above(Registered, r) \subseteq Above(Registered, r)'
    BY DEF Above, Newer, Registered
  <2>2. IsFiniteSet(Registered')
    BY FS_AddElement DEF Numbered
  <2>3. Above(Registered, r)' \subseteq Registered'
    BY DEF Above
  <2>4. IsFiniteSet(Above(Registered, r)')
    BY <2>2, <2>3, FS_Subset
  <2>5. /\ IsFiniteSet(Above(Registered, r))
        /\ Cardinality(Above(Registered, r)) <= Cardinality(Above(Registered, r)')
    BY <2>1, <2>4, FS_Subset
  <2>6. /\ Cardinality(Above(Registered, r)) \in Nat
        /\ Cardinality(Above(Registered, r)') \in Nat
    BY <2>4, <2>5, FS_CardinalityType
  <2> QED
    BY <2>5, <2>6, KnobAssumption DEF Beyond, Rank
<1>2. CASE \A b \in Builds : ~RecordSuccess(b)
  <2>1. UNCHANGED <<created, position>>
    BY <1>2, OrderKept
  <2>2. UNCHANGED Registered
    BY <2>1 DEF Registered
  <2>3. UNCHANGED Above(Registered, r)
    BY <2>1, <2>2 DEF Above, Newer
  <2> QED
    BY <2>2, <2>3 DEF Beyond, Rank
<1> QED
  BY <1>1, <1>2

(* A prune's snapshot holds only releases beyond keep_releases. *)
LEMMA DoomedIsBeyond ==
  ASSUME TypeOK, Numbered, NEW f, NEW r \in Doomed(f)
  PROVE  r \in Registered /\ Beyond(r)
<1>1. r \in releases /\ Rank(releases, r) >= Keep /\ releases \subseteq Registered
  BY DEF Doomed, TypeOK
<1>2. /\ Rank(releases, r) \in Nat
      /\ Rank(Registered, r) \in Nat
      /\ Rank(releases, r) <= Rank(Registered, r)
  BY <1>1, SmallerRank DEF Numbered
<1> QED
  BY <1>1, <1>2, KnobAssumption DEF Beyond

(* Each of the other conjuncts survives every step. *)
LEMMA MarkedNext ==
  ASSUME TypeOK, Numbered, Marked, [Next]_vars PROVE Marked'
<1> SUFFICES ASSUME NEW x \in Builds, NEW r \in doomed'[x]
             PROVE  r \in Registered' /\ Beyond(r)'
  BY DEF Marked
<1>1. CASE r \in doomed[x]
  BY <1>1, BeyondForever DEF Marked
<1>2. CASE r \notin doomed[x]
  <2>1. PICK b \in Builds : ReadDoomed(b)
    <3>1. ASSUME NEW b \in Builds, JobStep(b), ~ReadDoomed(b)
          PROVE  doomed'[x] \subseteq doomed[x]
      BY <3>1 DEF JobStep, Compose, Assemble, PipelineFails, RecordSuccess,
         RecordFailure, ReadRunning, ReadAdvertised, OpenImages,
         SweepEntry, SkipEntry, EndSweep, CannotOpenImages,
         NothingToPrune, ReadPaths, PruneFile,
         PruneRecords, locals, TypeOK
    <3>2. ASSUME NEW b \in Builds, Start(b) PROVE doomed' = doomed
      BY <3>2 DEF Start, locals
    <3>3. CASE Tick \/ Crash \/ UNCHANGED vars
      BY <3>3, <1>2 DEF Tick, Crash, vars, locals
    <3> QED
      BY <3>1, <3>2, <3>3, <1>2 DEF Next
  <2>2. r \in Doomed(FlavorOf[b])
    BY <2>1, <1>2 DEF ReadDoomed, TypeOK
  <2> QED
    BY <2>2, DoomedIsBeyond, BeyondForever
<1> QED
  BY <1>1, <1>2

LEMMA RemovedNext ==
  ASSUME TypeOK, Numbered, Marked, Removed, [Next]_vars PROVE Removed'
<1> SUFFICES ASSUME NEW r \in Registered', r \notin releases'
             PROVE  Beyond(r)'
  BY DEF Removed
<1>1. ASSUME NEW b \in Builds, RecordSuccess(b) PROVE Beyond(r)'
  <2>1. r \in Registered /\ r \notin releases
    BY <1>1, OthersKeepTheirPlace
  <2> QED
    BY <2>1, BeyondForever DEF Removed
<1>2. CASE \A b \in Builds : ~RecordSuccess(b)
  <2>1. r \in Registered
    BY <1>2, OrderKept DEF Registered
  <2>2. CASE r \notin releases
    BY <2>1, <2>2, BeyondForever DEF Removed
  <2>3. CASE r \in releases
    <3>1. PICK b \in Builds : PruneRecords(b)
      <4>1. ASSUME NEW b \in Builds, JobStep(b), ~PruneRecords(b)
            PROVE UNCHANGED releases
        BY <4>1, <1>2 DEF JobStep, Compose, Assemble, PipelineFails,
           RecordFailure, ReadRunning, ReadAdvertised, OpenImages,
           SweepEntry, SkipEntry, EndSweep, CannotOpenImages, NothingToPrune, ReadDoomed,
           ReadPaths, PruneFile, state
      <4>2. ASSUME NEW b \in Builds, Start(b) PROVE UNCHANGED releases
        BY <4>2 DEF Start
      <4>3. CASE Tick \/ Crash \/ UNCHANGED vars
        BY <4>3, <2>3 DEF Tick, Crash, vars, state
      <4> QED
        BY <4>1, <4>2, <4>3, <2>3 DEF Next
    <3>2. r \in doomed[b]
      BY <3>1, <2>3 DEF PruneRecords
    <3> QED
      BY <3>2, <2>1, BeyondForever DEF Marked
  <2> QED
    BY <2>2, <2>3
<1> QED
  BY <1>1, <1>2

LEMMA VisitedNext ==
  ASSUME TypeOK, Visited, [Next]_vars PROVE Visited'
<1> USE DEF Visited, Image, Scratch
<1>1. ASSUME NEW b \in Builds, Start(b) PROVE Visited'
  BY <1>1 DEF Start, Goto, TypeOK, locals
<1>2. ASSUME NEW b \in Builds, Compose(b) \/ Assemble(b) \/ PipelineFails(b)
                                 \/ RecordSuccess(b) \/ RecordFailure(b)
      PROVE Visited'
  BY <1>2 DEF Compose, Assemble, PipelineFails, RecordSuccess, RecordFailure,
     Goto, TypeOK, locals
<1>3. ASSUME NEW b \in Builds, ReadRunning(b) \/ ReadAdvertised(b)
                                 \/ EndSweep(b) \/ CannotOpenImages(b)
                                 \/ NothingToPrune(b)
      PROVE Visited'
  BY <1>3 DEF ReadRunning, ReadAdvertised, EndSweep, CannotOpenImages, NothingToPrune,
     Goto, TypeOK, locals
<1>4. ASSUME NEW b \in Builds, OpenImages(b) PROVE Visited'
  BY <1>4 DEF OpenImages, Goto, TypeOK
<1>5. ASSUME NEW b \in Builds, SweepEntry(b) \/ SkipEntry(b) \/ PruneFile(b)
      PROVE Visited'
  BY <1>5 DEF SweepEntry, SkipEntry, PruneFile, TypeOK
<1>6. ASSUME NEW b \in Builds, ReadDoomed(b) PROVE Visited'
  BY <1>6 DEF ReadDoomed, Goto, TypeOK
<1>7. ASSUME NEW b \in Builds, ReadPaths(b) PROVE Visited'
  BY <1>7 DEF ReadPaths, Goto, TypeOK
<1>8. ASSUME NEW b \in Builds, PruneRecords(b) PROVE Visited'
  BY <1>8 DEF PruneRecords, Goto, TypeOK
<1>9. CASE Tick \/ Crash \/ UNCHANGED vars
  BY <1>9 DEF Tick, Crash, vars, locals, TypeOK
<1> QED
  BY <1>1, <1>2, <1>3, <1>4, <1>5, <1>6, <1>7, <1>8, <1>9 DEF Next, JobStep

(* An image leaves the disk only by a prune that may remove it, or because *)
(* its name looks like an intermediate.                                    *)
LEMMA ImageKept ==
  ASSUME TypeOK, Marked, Visited, [Next]_vars, NEW r \in Builds, HasImage(r)
  PROVE  HasImage(r)' \/ (r \in Registered /\ Beyond(r))
<1> USE DEF HasImage, Image
<1>1. ASSUME NEW b \in Builds, SweepEntry(b) PROVE HasImage(r)'
  BY <1>1 DEF SweepEntry, Sweepable, LooksIntermediate
<1>2. ASSUME NEW b \in Builds, PruneFile(b)
      PROVE  HasImage(r)' \/ (r \in Registered /\ Beyond(r))
  BY <1>2 DEF PruneFile, Visited, Marked
<1>3. ASSUME NEW b \in Builds, Start(b) \/ JobStep(b),
             ~SweepEntry(b), ~PruneFile(b)
      PROVE  HasImage(r)'
  BY <1>3 DEF Start, JobStep, Compose, Assemble, PipelineFails, RecordSuccess,
     RecordFailure, ReadRunning, ReadAdvertised, OpenImages, SkipEntry,
     EndSweep, CannotOpenImages, NothingToPrune, ReadDoomed, ReadPaths, PruneRecords
<1>4. CASE Tick \/ Crash \/ UNCHANGED vars
  BY <1>4 DEF Tick, Crash, vars
<1> QED
  BY <1>1, <1>2, <1>3, <1>4 DEF Next

LEMMA ImagedNext ==
  ASSUME TypeOK, Numbered, Marked, Visited, Imaged, [Next]_vars PROVE Imaged'
<1>1. ASSUME NEW b \in Builds, pc'[b] = "built" PROVE HasImage(b)'
  <2>1. CASE pc[b] = "built"
    <3>1. b \notin Registered
      BY <2>1 DEF Numbered, Registered, Early
    <3> QED
      BY <2>1, <3>1, ImageKept DEF Imaged
  <2>2. CASE pc[b] # "built"
    <3>1. Assemble(b)
      <4>1. ASSUME NEW x \in Builds, Start(x) \/ JobStep(x), ~Assemble(x)
            PROVE  pc'[b] = "built" => pc[b] = "built"
        BY <4>1 DEF Start, JobStep, Compose, PipelineFails, RecordSuccess,
           RecordFailure, ReadRunning, ReadAdvertised, OpenImages,
           SweepEntry, SkipEntry, EndSweep, CannotOpenImages, NothingToPrune, ReadDoomed,
           ReadPaths, PruneFile, PruneRecords, Goto, TypeOK
      <4>2. ASSUME NEW x \in Builds, Assemble(x), x # b
            PROVE  pc'[b] = pc[b]
        BY <4>2 DEF Assemble, Goto, TypeOK
      <4>3. CASE Tick \/ Crash \/ UNCHANGED vars
        BY <4>3, <1>1, <2>2 DEF Tick, Crash, vars
      <4> QED
        BY <4>1, <4>2, <4>3, <1>1, <2>2 DEF Next
    <3> QED
      BY <3>1 DEF Assemble, HasImage
  <2> QED
    BY <2>1, <2>2
<1>2. ASSUME NEW r \in Registered' PROVE HasImage(r)' \/ Beyond(r)'
  <2>1. CASE r \in Registered
    <3>1. r \in Builds
      BY <2>1 DEF Registered
    <3> QED
      BY <2>1, <3>1, ImageKept, BeyondForever DEF Imaged
  <2>2. CASE r \notin Registered
    <3>1. PICK b \in Builds : RecordSuccess(b)
      BY <2>2, OrderKept DEF Registered
    <3>2. r = b
      BY <2>2, <3>1, OthersKeepTheirPlace
    <3>3. pc[b] = "built" /\ disk' = disk
      BY <3>1 DEF RecordSuccess, Goto
    <3> QED
      BY <3>2, <3>3 DEF Imaged, HasImage
  <2> QED
    BY <2>1, <2>2
<1> QED
  BY <1>1, <1>2 DEF Imaged

LEMMA KeptNext == KeptInv /\ [Next]_vars => KeptInv'
  BY TypeNext, NumberedNext, MarkedNext, RemovedNext, VisitedNext, ImagedNext
     DEF KeptInv

(* No prune, sweep or crash ever costs one of the newest keep_releases     *)
(* releases of a flavor its record or its image.                           *)
THEOREM NewestSurvive == Spec => []NewestKept
  BY KeptInit, KeptNext, KeptImplies, PTL DEF Spec

-----------------------------------------------------------------------------
(* A missing image has somebody who will remove the record                 *)

Removes(b, r) == (pc[b] = "pruning" /\ r \in doomed[b]) \/ pc[b] = "dead"

LEMMA MissingNext ==
  ASSUME KeptInv, MissingOwned, [Next]_vars
  PROVE  MissingOwned'
<1> SUFFICES ASSUME NEW r \in releases', ~HasImage(r)'
             PROVE  \E b \in Builds : Removes(b, r)'
  BY DEF MissingOwned, HasImage, Removes
<1> USE DEF KeptInv
<1>1. ASSUME NEW b \in Builds, RecordSuccess(b), r = b PROVE FALSE
  <2>1. pc[b] = "built" /\ disk' = disk
    BY <1>1 DEF RecordSuccess, Goto
  <2> QED
    BY <1>1, <2>1 DEF Imaged, HasImage
<1>2. r \in releases /\ r \in Builds
  <2>1. ASSUME NEW b \in Builds, RecordSuccess(b) PROVE r \in releases
    BY <1>1, <2>1 DEF RecordSuccess
  <2>2. r \in releases
    BY <2>1, OrderKept
  <2> QED
    BY <2>2 DEF TypeOK, Registered
(* The prune that removes the image is one that will remove the record. *)
<1>3. CASE HasImage(r)
  <2>1. PICK b \in Builds : PruneFile(b)
    <3>1. ASSUME NEW b \in Builds, SweepEntry(b) PROVE HasImage(r)'
      BY <1>3, <3>1 DEF SweepEntry, Sweepable, LooksIntermediate, HasImage, Image
    <3>2. ASSUME NEW b \in Builds, Start(b) \/ JobStep(b),
                 ~SweepEntry(b), ~PruneFile(b)
          PROVE  HasImage(r)'
      BY <1>3, <3>2 DEF Start, JobStep, Compose, Assemble, PipelineFails,
         RecordSuccess, RecordFailure, ReadRunning, ReadAdvertised, OpenImages,
         SkipEntry, EndSweep, CannotOpenImages, NothingToPrune, ReadDoomed,
         ReadPaths, PruneRecords, HasImage, Image
    <3>3. CASE Tick \/ Crash \/ UNCHANGED vars
      BY <1>3, <3>3 DEF Tick, Crash, vars, HasImage
    <3> QED
      BY <3>1, <3>2, <3>3 DEF Next
  <2>2. pc[b] = "pruning" /\ Image(r) \in todo[b] /\ UNCHANGED <<pc, doomed>>
    BY <1>3, <2>1 DEF PruneFile, HasImage
  <2>3. r \in doomed[b]
    BY <1>2, <2>2 DEF Visited
  <2> QED
    BY <2>2, <2>3 DEF Removes
(* One that is at it goes on until the record is gone. *)
<1>4. CASE ~HasImage(r)
  <2>1. PICK m \in Builds : Removes(m, r)
    BY <1>2, <1>4 DEF MissingOwned, HasImage, Removes
  <2> USE DEF TypeOK, Goto, Removes
  <2>2. ASSUME NEW b \in Builds, Start(b) PROVE Removes(m, r)'
    BY <2>1, <2>2 DEF Start, locals
  <2>3. ASSUME NEW b \in Builds, Compose(b) \/ Assemble(b) \/ PipelineFails(b)
                                   \/ RecordSuccess(b) \/ RecordFailure(b)
        PROVE  Removes(m, r)'
    BY <2>1, <2>3 DEF Compose, Assemble, PipelineFails, RecordSuccess,
       RecordFailure, locals
  <2>4. ASSUME NEW b \in Builds, ReadRunning(b) \/ ReadAdvertised(b)
                                   \/ OpenImages(b) \/ CannotOpenImages(b)
                                   \/ EndSweep(b)
        PROVE  Removes(m, r)'
    BY <2>1, <2>4 DEF ReadRunning, ReadAdvertised, OpenImages, CannotOpenImages,
       EndSweep
  <2>5. ASSUME NEW b \in Builds, SweepEntry(b) \/ SkipEntry(b) \/ PruneFile(b)
        PROVE  Removes(m, r)'
    BY <2>1, <2>5 DEF SweepEntry, SkipEntry, PruneFile
  <2>6. ASSUME NEW b \in Builds, NothingToPrune(b) \/ ReadDoomed(b) \/ ReadPaths(b)
        PROVE  Removes(m, r)'
    BY <2>1, <2>6 DEF NothingToPrune, ReadDoomed, ReadPaths, locals
  <2>7. ASSUME NEW b \in Builds, PruneRecords(b) PROVE Removes(m, r)'
    <3>1. r \notin doomed[b]
      BY <2>7 DEF PruneRecords
    <3> QED
      BY <2>1, <2>7, <3>1 DEF PruneRecords
  <2>8. CASE Tick \/ UNCHANGED vars
    BY <2>1, <2>8 DEF Tick, vars, locals
  <2>9. CASE Crash
    BY <2>1, <2>9 DEF Crash
  <2> QED
    BY <2>2, <2>3, <2>4, <2>5, <2>6, <2>7, <2>8, <2>9 DEF Next, JobStep
<1> QED
  BY <1>3, <1>4

(* A release is without its image only while a prune that will remove its  *)
(* record is running, or when one died with the service.                   *)
THEOREM MissingHasOwner == Spec => []MissingOwned
<1>1. Init => MissingOwned
  BY DEF Init, MissingOwned
<1> QED
  BY <1>1, KeptInit, KeptNext, MissingNext, PTL DEF Spec

-----------------------------------------------------------------------------
(* BuildJobs implements Retention                                          *)

(* No prune takes place when keep_releases is 0. *)
Willing == \A b \in Builds : doomed[b] # {} => Keep # 0

RetainInv == KeptInv /\ Willing

LEMMA WillingNext == ASSUME TypeOK, Willing, [Next]_vars PROVE Willing'
<1> USE DEF Willing, TypeOK
<1>1. ASSUME NEW b \in Builds, ReadDoomed(b) PROVE Willing'
  BY <1>1 DEF ReadDoomed
<1>2. ASSUME NEW b \in Builds, PruneRecords(b) PROVE Willing'
  BY <1>2 DEF PruneRecords
<1>3. ASSUME NEW b \in Builds, Start(b) \/ JobStep(b), ~ReadDoomed(b),
             ~PruneRecords(b)
      PROVE  UNCHANGED doomed
  BY <1>3 DEF Start, JobStep, Compose, Assemble, PipelineFails, RecordSuccess,
     RecordFailure, ReadRunning, ReadAdvertised, OpenImages, CannotOpenImages,
     SweepEntry, SkipEntry, EndSweep, NothingToPrune, ReadPaths, PruneFile, locals
<1>4. CASE Crash
  BY <1>4 DEF Crash
<1>5. CASE Tick \/ UNCHANGED vars
  BY <1>5 DEF Tick, vars, locals
<1> QED
  BY <1>1, <1>2, <1>3, <1>4, <1>5 DEF Next

LEMMA RetainNext == RetainInv /\ [Next]_vars => RetainInv'
  BY KeptNext, WillingNext DEF RetainInv, KeptInv

LEMMA RetainInit == Init => RetainInv /\ Retained!Init
<1>1. Init => Willing
  BY DEF Init, Willing
<1> QED
  BY <1>1, KeptInit DEF RetainInv, Init, Retained!Init, Offered

(* An image does not come back once its release is registered. *)
LEMMA NothingReturns ==
  ASSUME KeptInv, [Next]_vars, NEW r \in releases, HasImage(r)'
  PROVE  HasImage(r)
<1>1. r \in Builds /\ pc[r] \notin Early
  BY DEF KeptInv, TypeOK, Registered, Numbered
<1> USE DEF HasImage, Image, Scratch
<1>2. ASSUME NEW b \in Builds, Compose(b) PROVE HasImage(r)
  BY <1>2 DEF Compose
<1>3. ASSUME NEW b \in Builds, Assemble(b) \/ PipelineFails(b) PROVE HasImage(r)
  <2>1. b # r
    BY <1>1, <1>3 DEF Assemble, PipelineFails, Goto, Early
  <2> QED
    BY <1>3, <2>1 DEF Assemble, PipelineFails
<1>4. ASSUME NEW b \in Builds, Start(b) \/ JobStep(b), ~Compose(b), ~Assemble(b),
             ~PipelineFails(b)
      PROVE  disk' \subseteq disk
  BY <1>4 DEF Start, JobStep, RecordSuccess, RecordFailure, ReadRunning,
     ReadAdvertised, OpenImages, CannotOpenImages, SweepEntry, SkipEntry, EndSweep,
     NothingToPrune, ReadDoomed, ReadPaths, PruneFile, PruneRecords
<1>5. CASE Tick \/ Crash \/ UNCHANGED vars
  BY <1>5 DEF Tick, Crash, vars
<1> QED
  BY <1>2, <1>3, <1>4, <1>5 DEF Next

(* What can no longer be had was doomed. *)
LEMMA WithdrawnWasDoomed ==
  ASSUME KeptInv, [Next]_vars, NEW r \in Offered, r \notin Offered'
  PROVE  \E b \in Builds : r \in doomed[b]
<1> USE DEF KeptInv
<1>1. r \in releases /\ r \in Builds /\ HasImage(r)
  BY DEF Offered, HasImage, TypeOK, Registered
<1>2. r \notin releases' \/ ~HasImage(r)'
  BY DEF Offered, HasImage
<1>3. ASSUME NEW b \in Builds, PruneRecords(b) PROVE r \in doomed[b]
  BY <1>1, <1>2, <1>3 DEF PruneRecords, HasImage
<1>4. ASSUME NEW b \in Builds, PruneFile(b) PROVE r \in doomed[b]
  <2>1. pc[b] = "pruning" /\ Image(r) \in todo[b]
    BY <1>1, <1>2, <1>4 DEF PruneFile, HasImage, state
  <2> QED
    BY <1>1, <2>1 DEF Visited
<1>5. ASSUME NEW b \in Builds, SweepEntry(b) PROVE FALSE
  BY <1>1, <1>2, <1>5 DEF SweepEntry, Sweepable, LooksIntermediate, HasImage,
     Image, state
<1>6. ASSUME NEW b \in Builds, Start(b) \/ JobStep(b), ~PruneRecords(b),
             ~PruneFile(b), ~SweepEntry(b)
      PROVE  releases \subseteq releases' /\ disk \subseteq disk'
  BY <1>6 DEF Start, JobStep, Compose, Assemble, PipelineFails, RecordSuccess,
     RecordFailure, ReadRunning, ReadAdvertised, OpenImages, CannotOpenImages,
     SkipEntry, EndSweep, NothingToPrune, ReadDoomed, ReadPaths, state
<1>7. CASE Tick \/ Crash \/ UNCHANGED vars
  BY <1>1, <1>2, <1>7 DEF Tick, Crash, vars, state, HasImage
<1> QED
  BY <1>1, <1>2, <1>3, <1>4, <1>5, <1>6, <1>7 DEF Next, HasImage

LEMMA BeyondIsOld == ASSUME NEW r PROVE Beyond(r) <=> Retained!Old(r)
<1>1. Above(Registered, r) =
        {q \in Retained!Made : FlavorOf[q] = FlavorOf[r] /\ Retained!Newer(q, r)}
  BY DEF Above, Registered, Newer, Retained!Made, Retained!Newer
<1> QED
  BY <1>1 DEF Beyond, Rank, Retained!Old, Cardinality, Retained!Cardinality

LEMMA NextRetains == RetainInv /\ [Next]_vars => [Retained!Next]_(Retained!vars)
<1> SUFFICES ASSUME RetainInv, [Next]_vars PROVE [Retained!Next]_(Retained!vars)
  OBVIOUS
<1> USE DEF RetainInv, KeptInv
<1>1. ASSUME NEW b \in Builds, RecordSuccess(b) PROVE Retained!Next
  <2>1. b \notin Retained!Made
    BY <1>1, OthersKeepTheirPlace DEF Registered, Retained!Made
  <2>2. /\ created' = [created EXCEPT ![b] = created'[b]]
        /\ position' = [position EXCEPT ![b] = position'[b]]
        /\ position'[b] = pushes + 1
    BY <1>1 DEF RecordSuccess, TypeOK
  <2>3. \A q \in Builds : position[q] < position'[b]
    BY <2>2 DEF Numbered, TypeOK
  <2>4. Offered' = Offered \cup {b}
    <3>1. pc[b] = "built" /\ disk' = disk /\ releases' = releases \cup {b}
      BY <1>1 DEF RecordSuccess, Goto
    <3>2. HasImage(b)
      BY <3>1 DEF Imaged
    <3> QED
      BY <3>1, <3>2 DEF Offered, HasImage, Image
  <2>5. Retained!Offer(b)
    BY <2>1, <2>2, <2>3, <2>4 DEF Retained!Offer
  <2> QED
    BY <2>5 DEF Retained!Next
<1>2. CASE \A b \in Builds : ~RecordSuccess(b)
  <2>1. UNCHANGED <<created, position>> /\ releases' \subseteq releases
    BY <1>2, OrderKept
  <2>2. Offered' \subseteq Offered
    BY <2>1, NothingReturns DEF Offered, HasImage
  <2>3. CASE Offered' = Offered
    BY <2>1, <2>3 DEF Retained!vars
  <2>4. CASE Offered' # Offered
    <3> DEFINE gone == Offered \ Offered'
    <3>1. \A r \in gone : \E b \in Builds : r \in doomed[b]
      BY WithdrawnWasDoomed
    <3>2. Keep # 0
      BY <2>2, <2>4, <3>1 DEF Willing
    <3>3. \A r \in gone : Retained!Old(r)
      BY <3>1, BeyondIsOld DEF Marked
    <3>4. gone \in SUBSET Offered /\ Offered' = Offered \ gone
      BY <2>2
    <3>5. Retained!Withdraw
      BY <2>1, <3>2, <3>3, <3>4 DEF Retained!Withdraw
    <3> QED
      BY <3>5 DEF Retained!Next
  <2> QED
    BY <2>3, <2>4
<1> QED
  BY <1>1, <1>2

(* Prunes and sweeps of any number of builds, from whatever snapshots,     *)
(* withdraw only what is older than the newest keep_releases when they     *)
(* withdraw it.                                                            *)
THEOREM ImplementsRetention == Spec => IsRetention
  BY RetainInit, RetainNext, NextRetains, PTL DEF Spec, IsRetention, Retained!Spec

=============================================================================
