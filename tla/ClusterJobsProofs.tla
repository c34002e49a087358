------------------------- MODULE ClusterJobsProofs -------------------------
(***************************************************************************)
(* Theorems about ClusterJobs for any tasks, names and releases.           *)
(***************************************************************************)
EXTENDS ClusterJobs, TLAPS

-----------------------------------------------------------------------------
(* Type correctness                                                        *)

(* A provision that is to record its cluster carries a release. *)
Asked ==
  \A t \in Tasks : pc[t] = "asked" /\ job[t] = "provision" => rel[t] \in Releases

Inv == TypeOK /\ Asked

ClustersOK ==
  /\ cluster \in [Names -> [phase : Phases, release : Releases \cup {NoRelease}]]
  /\ \A n \in Names : Exists(n) <=> cluster[n].release # NoRelease

LEMMA SetPhaseOK ==
  ASSUME ClustersOK, NEW n \in Names, NEW ph \in Phases \ {"none"},
         SetPhase(n, ph)
  PROVE  ClustersOK' /\ \A x \in Names : Exists(x)' = Exists(x)
<1>1. CASE Exists(n)
  <2> DEFINE c == [phase |-> ph, release |-> cluster[n].release]
  <2>1. cluster' = [cluster EXCEPT ![n] = c]
    <3>1. cluster' = [cluster EXCEPT ![n] = [cluster[n] EXCEPT !.phase = ph]]
      BY <1>1 DEF SetPhase
    <3>2. cluster[n] \in [phase : Phases, release : Releases \cup {NoRelease}]
      BY DEF ClustersOK
    <3>3. [cluster[n] EXCEPT !.phase = ph] = c
      BY <3>2
    <3> QED
      BY <3>1, <3>3
  <2>2. c \in [phase : Phases, release : Releases \cup {NoRelease}]
    BY DEF ClustersOK
  <2>3. cluster'[n] = c /\ \A x \in Names \ {n} : cluster'[x] = cluster[x]
    BY <2>1 DEF ClustersOK
  <2>4. cluster' \in [Names -> [phase : Phases, release : Releases \cup {NoRelease}]]
    BY <2>1, <2>2 DEF ClustersOK
  <2>5. \A x \in Names : Exists(x)' = Exists(x)
    BY <2>3, <1>1 DEF Exists
  <2>6. \A x \in Names : cluster'[x].release = cluster[x].release
    BY <2>3
  <2> QED
    BY <2>4, <2>5, <2>6 DEF ClustersOK
<1>2. CASE ~Exists(n)
  <2>1. cluster' = cluster
    BY <1>2 DEF SetPhase
  <2> QED
    BY <2>1 DEF ClustersOK, Exists
<1> QED
  BY <1>1, <1>2

LEMMA InvInit == Init => Inv
  BY NoReleaseAssumption, KnobAssumption
     DEF Init, Inv, Asked, TypeOK, NoRecord, Exists, Phases, Verdicts, Jobs

LEMMA InvNext == Inv /\ [Next]_vars => Inv'
<1> SUFFICES ASSUME Inv, [Next]_vars PROVE Inv'
  OBVIOUS
<1> USE NameAssumption, NoReleaseAssumption DEF Inv, Asked, TypeOK, Verdicts, Goto
<1>1. ASSUME NEW r \in Releases, Register(r) PROVE Inv'
  BY <1>1 DEF Register, world, locals, Exists
<1>2. ASSUME NEW r \in Releases, ImageQa(r) PROVE Inv'
  BY <1>2 DEF ImageQa, world, locals, Exists
<1>3. ASSUME NEW r \in Releases, Prune(r) PROVE Inv'
  BY <1>3 DEF Prune, world, locals, Exists
<1>4. ASSUME NEW t \in Tasks, CreateCluster(t) PROVE Inv'
  BY <1>4 DEF CreateCluster, gate, world, Jobs, Exists
<1>5. ASSUME NEW t \in Tasks, AskForExisting(t) PROVE Inv'
  BY <1>5 DEF AskForExisting, gate, world, Jobs, Exists
<1>6. ASSUME NEW t \in Tasks, RecordCluster(t) PROVE Inv'
  <2>1. ClustersOK'
    <3> DEFINE c == [phase |-> "provisioning", release |-> rel[t]]
    <3>1. c \in [phase : Phases, release : Releases \cup {NoRelease}]
      BY DEF Phases
    <3>2. /\ cluster' = [cluster EXCEPT ![NameOf[t]] = c]
          /\ rel[t] # NoRelease
      BY <1>6 DEF RecordCluster
    <3>3. \A x \in Names : cluster'[x] = IF x = NameOf[t] THEN c ELSE cluster[x]
      BY <3>2
    <3>4. cluster' \in [Names -> [phase : Phases, release : Releases \cup {NoRelease}]]
      BY <3>1, <3>2
    <3>5. \A x \in Names : Exists(x)' <=> cluster'[x].release # NoRelease
      BY <3>2, <3>3 DEF Exists
    <3> QED
      BY <3>4, <3>5 DEF ClustersOK
  <2> QED
    BY <1>6, <2>1 DEF RecordCluster, ClustersOK, gate, world, locals, Working
<1>7. ASSUME NEW t \in Tasks, ReadCluster(t) PROVE Inv'
  <2>1. cluster[NameOf[t]].release \in Releases \cup {NoRelease}
    OBVIOUS
  <2>2. rel' \in [Tasks -> Releases \cup {NoRelease}]
    BY <1>7, <2>1 DEF ReadCluster
  <2>3. /\ pc' = [pc EXCEPT ![t] = "mark"] \/ pc' = [pc EXCEPT ![t] = "done"]
        /\ job[t] = "rebuild"
        /\ \A x \in Tasks \ {t} : rel'[x] = rel[x]
    BY <1>7 DEF ReadCluster
  <2>4. UNCHANGED <<gate, cluster, world, crashes, job, found, verdict>>
    BY <1>7 DEF ReadCluster
  <2> QED
    BY <2>2, <2>3, <2>4 DEF gate, world, Exists, Working
<1>8. ASSUME NEW t \in Tasks, NEW ph \in Phases \ {"none"},
             SetPhase(NameOf[t], ph),
             NEW s \in Working \cup Gating \cup {"done"},
             pc' = [pc EXCEPT ![t] = s],
             UNCHANGED <<gate, world, crashes, locals>>
      PROVE  Inv'
  <2>1. ClustersOK'
    BY <1>8, SetPhaseOK DEF ClustersOK
  <2> QED
    BY <1>8, <2>1 DEF ClustersOK, gate, world, locals, Working, Gating
<1>9. ASSUME NEW t \in Tasks, MarkCluster(t) PROVE Inv'
  <2>1. Transient[job[t]] \in Phases \ {"none"}
    BY <1>9 DEF MarkCluster, Transient, Phases
  <2> QED
    BY <1>9, <2>1, <1>8 DEF MarkCluster, Working
<1>10. ASSUME NEW t \in Tasks, Settle(t) PROVE Inv'
  BY <1>10, <1>8 DEF Settle, Working, Gating, Phases
<1>11. ASSUME NEW t \in Tasks, SettleFailed(t) PROVE Inv'
  BY <1>11, <1>8 DEF SettleFailed, Phases
<1>12. ASSUME NEW t \in Tasks, StartScript(t) \/ ScriptActs(t) PROVE Inv'
  BY <1>12 DEF StartScript, ScriptActs, gate, locals, Working, Exists
<1>13. ASSUME NEW t \in Tasks, ScriptEnds(t) \/ ScriptFails(t) PROVE Inv'
  BY <1>13 DEF ScriptEnds, ScriptFails, gate, world, locals, Working, Exists
<1>14. ASSUME NEW t \in Tasks, ReadAddress(t) PROVE Inv'
  BY <1>14 DEF ReadAddress, gate, world, Working, Exists
<1>15. ASSUME NEW t \in Tasks, Forget(t) PROVE Inv'
  <2>1. NoRecord \in [phase : Phases, release : Releases \cup {NoRelease}]
    BY DEF NoRecord, Phases
  <2>2. cluster' = [cluster EXCEPT ![NameOf[t]] = NoRecord]
    BY <1>15 DEF Forget
  <2>3. \A x \in Names : Exists(x)' <=> cluster'[x].release # NoRelease
    BY <2>2 DEF Exists, NoRecord
  <2> QED
    BY <1>15, <2>1, <2>2, <2>3 DEF Forget, gate, world, locals
<1>16. ASSUME NEW t \in Tasks, PickRelease(t) PROVE Inv'
  BY <1>16 DEF PickRelease, gate, world, Gating, Exists
<1>17. ASSUME NEW t \in Tasks, RunClusterQa(t) PROVE Inv'
  BY <1>17 DEF RunClusterQa, ReportFile, gate, locals, Gating, Exists
<1>18. ASSUME NEW t \in Tasks, ReadReport(t) PROVE Inv'
  BY <1>18 DEF ReadReport, ReportFile, gate, world, Gating, Exists
<1>19. ASSUME NEW t \in Tasks, FoldVerdict(t) PROVE Inv'
  BY <1>19 DEF FoldVerdict, world, locals, Exists
<1>20. CASE Crash
  BY <1>20 DEF Crash, world, locals, Exists
<1>21. CASE UNCHANGED vars
  BY <1>21 DEF vars, gate, world, locals, Exists
<1> QED
  BY <1>1, <1>2, <1>3, <1>4, <1>5, <1>6, <1>7, <1>9, <1>10, <1>11, <1>12,
     <1>13, <1>14, <1>15, <1>16, <1>17, <1>18, <1>19, <1>20, <1>21
     DEF Next, TaskStep

(* Every reachable state is well typed: only a release with a record has a *)
(* tombstone, and only a record has a release.                             *)
THEOREM TypeCorrect == Spec => []TypeOK
<1>1. Inv => TypeOK
  BY DEF Inv
<1> QED
  BY <1>1, InvInit, InvNext, PTL DEF Spec

-----------------------------------------------------------------------------
(* Phases have an owner                                                    *)

Owns(t, n, j) == NameOf[t] = n /\ job[t] = j /\ pc[t] \in Working \cup {"dead"}

LEMMA OwnedNext == Inv /\ TransientOwned /\ [Next]_vars => TransientOwned'
<1> SUFFICES ASSUME Inv, TransientOwned, [Next]_vars,
                    NEW n \in Names, NEW j \in Jobs,
                    cluster'[n].phase = Transient[j]
             PROVE  \E t \in Tasks : Owns(t, n, j)'
  BY DEF TransientOwned, Owns
<1> USE NameAssumption DEF Inv, TypeOK, Goto
(* A step that leaves the record alone and takes no task out of its work.  *)
<1>1. ASSUME cluster'[n] = cluster[n],
             \A t \in Tasks : Owns(t, n, j) => Owns(t, n, j)'
      PROVE  \E t \in Tasks : Owns(t, n, j)'
  <2>1. PICK t \in Tasks : Owns(t, n, j)
    BY <1>1 DEF TransientOwned, Owns
  <2> QED
    BY <2>1, <1>1
<1>2. ASSUME NEW r \in Releases, Register(r) \/ ImageQa(r) \/ Prune(r)
      PROVE  \E t \in Tasks : Owns(t, n, j)'
  BY <1>1, <1>2 DEF Register, ImageQa, Prune, world, locals, Owns
<1>3. ASSUME NEW t \in Tasks, CreateCluster(t) \/ AskForExisting(t)
      PROVE  \E x \in Tasks : Owns(x, n, j)'
  BY <1>1, <1>3 DEF CreateCluster, AskForExisting, Owns, Working
<1>4. ASSUME NEW t \in Tasks, RecordCluster(t)
      PROVE  \E x \in Tasks : Owns(x, n, j)'
  <2>1. CASE n = NameOf[t]
    <3>1. cluster'[n].phase = "provisioning"
      BY <1>4, <2>1 DEF RecordCluster
    <3>2. j = "provision"
      BY <3>1 DEF Transient, Jobs
    <3>3. Owns(t, n, j)'
      BY <1>4, <2>1, <3>2 DEF RecordCluster, Owns, Working, locals
    <3> QED
      BY <3>3
  <2>2. CASE n # NameOf[t]
    BY <1>1, <1>4, <2>2 DEF RecordCluster, Owns, Working, locals
  <2> QED
    BY <2>1, <2>2
<1>5. ASSUME NEW t \in Tasks, ReadCluster(t)
      PROVE  \E x \in Tasks : Owns(x, n, j)'
  BY <1>1, <1>5 DEF ReadCluster, Owns, Working
<1>6. ASSUME NEW t \in Tasks, MarkCluster(t)
      PROVE  \E x \in Tasks : Owns(x, n, j)'
  <2>1. pc' = [pc EXCEPT ![t] = "launch"] /\ job' = job /\ job[t] \in Jobs
    BY <1>6 DEF MarkCluster, locals
  <2>2. CASE n = NameOf[t] /\ Exists(n)
    <3>1. cluster'[n].phase = Transient[job[t]]
      BY <1>6, <2>2 DEF MarkCluster, SetPhase
    <3>2. j = job[t]
      BY <3>1, <2>1 DEF Transient, Jobs
    <3> QED
      BY <2>1, <2>2, <3>2 DEF Owns, Working
  <2>3. CASE ~(n = NameOf[t] /\ Exists(n))
    <3>1. cluster'[n] = cluster[n]
      BY <1>6, <2>3 DEF MarkCluster, SetPhase
    <3> QED
      BY <3>1, <2>1, <1>1 DEF Owns, Working
  <2> QED
    BY <2>2, <2>3
<1>7. ASSUME NEW t \in Tasks, StartScript(t) \/ ScriptActs(t)
                              \/ ScriptEnds(t) \/ ScriptFails(t)
      PROVE  \E x \in Tasks : Owns(x, n, j)'
  BY <1>1, <1>7 DEF StartScript, ScriptActs, ScriptEnds, ScriptFails, Owns,
     Working, locals
<1>8. ASSUME NEW t \in Tasks, ReadAddress(t)
      PROVE  \E x \in Tasks : Owns(x, n, j)'
  BY <1>1, <1>8 DEF ReadAddress, Owns, Working
(* A task that ends its work ends the phase, too. *)
<1>9. ASSUME NEW t \in Tasks, Settle(t) \/ SettleFailed(t) \/ Forget(t)
      PROVE  \E x \in Tasks : Owns(x, n, j)'
  <2>1. n # NameOf[t] \/ ~Exists(n)
    <3>1. Transient[j] \notin {"none", "ready", "failed"}
      BY DEF Transient, Jobs
    <3>2. n = NameOf[t] /\ Exists(n)
            => cluster'[n].phase \in {"none", "ready", "failed"}
      BY <1>9 DEF Settle, SettleFailed, Forget, SetPhase, NoRecord
    <3> QED
      BY <3>1, <3>2
  <2>2. n # NameOf[t]
    <3>1. Transient[j] # "none"
      BY DEF Transient, Jobs
    <3>2. n = NameOf[t] /\ ~Exists(n) => cluster'[n].phase = "none"
      BY <1>9 DEF Settle, SettleFailed, Forget, SetPhase, NoRecord, Exists
    <3> QED
      BY <2>1, <3>1, <3>2
  <2>3. cluster'[n] = cluster[n]
    BY <1>9, <2>2 DEF Settle, SettleFailed, Forget, SetPhase
  <2>4. job' = job /\ \A x \in Tasks : x # t => pc'[x] = pc[x]
    BY <1>9 DEF Settle, SettleFailed, Forget, locals
  <2> QED
    BY <2>2, <2>3, <2>4, <1>1 DEF Owns
<1>10. ASSUME NEW t \in Tasks, PickRelease(t) \/ RunClusterQa(t)
                               \/ ReadReport(t) \/ FoldVerdict(t)
      PROVE  \E x \in Tasks : Owns(x, n, j)'
  BY <1>1, <1>10 DEF PickRelease, RunClusterQa, ReadReport, FoldVerdict, Owns,
     Working, locals
<1>11. CASE Crash
  BY <1>1, <1>11 DEF Crash, Owns, Working, locals
<1>12. CASE UNCHANGED vars
  BY <1>1, <1>12 DEF vars, Owns, locals
<1> QED
  BY <1>2, <1>3, <1>4, <1>5, <1>6, <1>7, <1>8, <1>9, <1>10, <1>11, <1>12
     DEF Next, TaskStep

(* A cluster in a transient phase has a task that will end it, unless the  *)
(* service died.                                                           *)
THEOREM PhaseHasOwner == Spec => []TransientOwned
<1>1. Init => TransientOwned
  BY DEF Init, TransientOwned, NoRecord, Transient, Jobs
<1> QED
  BY <1>1, InvInit, InvNext, OwnedNext, PTL DEF Spec

(* A name without a record gets one from RecordCluster only. *)
LEMMA RecordedOnly ==
  ASSUME Inv, [Next]_vars, NEW n \in Names, ~Exists(n), Exists(n)'
  PROVE  \E t \in Tasks : NameOf[t] = n /\ RecordCluster(t)
<1> USE NameAssumption DEF Inv, TypeOK
<1>1. ASSUME NEW t \in Tasks, MarkCluster(t) \/ Settle(t) \/ SettleFailed(t)
      PROVE  FALSE
  <2>1. PICK ph \in Phases \ {"none"} : SetPhase(NameOf[t], ph)
    BY <1>1 DEF MarkCluster, Settle, SettleFailed, Transient, Jobs, Phases
  <2> QED
    BY <2>1, SetPhaseOK DEF ClustersOK
<1>2. ASSUME NEW t \in Tasks, Forget(t) PROVE FALSE
  BY <1>2 DEF Forget, NoRecord, Exists
<1>3. ASSUME NEW t \in Tasks, RecordCluster(t), NameOf[t] # n PROVE FALSE
  BY <1>3 DEF RecordCluster, Exists
<1>4. ASSUME UNCHANGED cluster PROVE FALSE
  BY <1>4 DEF Exists
<1>5. ASSUME NEW t \in Tasks,
             CreateCluster(t) \/ AskForExisting(t) \/ ReadCluster(t)
               \/ StartScript(t) \/ ScriptActs(t) \/ ScriptEnds(t) \/ ScriptFails(t)
               \/ ReadAddress(t) \/ PickRelease(t) \/ RunClusterQa(t)
               \/ ReadReport(t) \/ FoldVerdict(t)
      PROVE  FALSE
  BY <1>4, <1>5 DEF CreateCluster, AskForExisting, ReadCluster, StartScript,
     ScriptActs, ScriptEnds, ScriptFails, ReadAddress, PickRelease, RunClusterQa,
     ReadReport, FoldVerdict
<1>6. ASSUME NEW r \in Releases, Register(r) \/ ImageQa(r) \/ Prune(r) PROVE FALSE
  BY <1>4, <1>6 DEF Register, ImageQa, Prune
<1>7. CASE Crash \/ UNCHANGED vars
  BY <1>4, <1>7 DEF Crash, vars
<1> QED
  BY <1>1, <1>2, <1>3, <1>5, <1>6, <1>7 DEF Next, TaskStep

(* However the jobs of a name overlap, a record that was deleted comes     *)
(* back only by a new provision.                                           *)
THEOREM DeletedStays == Spec => NoResurrection
<1>1. Inv /\ [Next]_vars =>
        [\A n \in Names :
           (~Exists(n) /\ Exists(n)')
             => \E t \in Tasks : NameOf[t] = n /\ RecordCluster(t)]_vars
  BY RecordedOnly
<1> QED
  BY <1>1, InvInit, InvNext, PTL DEF Spec, NoResurrection

-----------------------------------------------------------------------------
(* The QA gate                                                             *)

(* Whatever QA passes report in whatever order, a tombstone goes only with *)
(* the release's record.                                                   *)
THEOREM TombstonesRemain == Spec => TombstonesStay
<1>1. [Next]_vars => [tombstoned \cap releases' \subseteq tombstoned']_vars
  BY DEF Next, TaskStep, Register, ImageQa, Prune, CreateCluster,
     AskForExisting, RecordCluster, ReadCluster, MarkCluster, StartScript,
     ScriptActs, ScriptEnds, ScriptFails, ReadAddress, Settle, SettleFailed,
     Forget, PickRelease, RunClusterQa, ReadReport, FoldVerdict, Crash, vars, gate
<1> QED
  BY <1>1, PTL DEF Spec, TombstonesStay

-----------------------------------------------------------------------------
(* Tombstones are deserved                                                 *)

(* As long as no name is provisioned twice, its record, its machine and    *)
(* its tasks know of one release at most: that of the only provision.      *)
Known(n, r) ==
  /\ r # NoRelease
  /\ \/ r \in {cluster[n].release, vm[n]}
     \/ \E t \in Tasks : NameOf[t] = n /\ rel[t] = r

OneRelease ==
  \A n \in Names, r, q \in Releases : Known(n, r) /\ Known(n, q) => r = q
FromProvision ==
  \A n \in Names, r \in Releases :
    Known(n, r) =>
      \E t \in Tasks : NameOf[t] = n /\ job[t] = "provision" /\ pc[t] # "idle"
Reported ==
  /\ \A r \in Releases : report[r] = "block" => r \in faulty
  /\ \A t \in Tasks :
       pc[t] = "fold" /\ verdict[t] = "block" => rel[t] \in faulty \cup {NoRelease}
  /\ tombstoned \subseteq faulty

Deserved == OneRelease /\ FromProvision /\ Reported

DeservedInv == Inv /\ (ProvisionedTwice \/ Deserved)

LEMMA DeservedInit == Init => DeservedInv
<1> SUFFICES ASSUME Init PROVE Deserved
  BY InvInit DEF DeservedInv
<1>1. \A n \in Names, r \in Releases : ~Known(n, r)
  BY DEF Init, Known, NoRecord
<1>2. Reported
  BY DEF Init, Reported
<1> QED
  BY <1>1, <1>2 DEF Deserved, OneRelease, FromProvision

(* A provision stays one. *)
LEMMA ProvisionStays ==
  ASSUME Inv, [Next]_vars, NEW t \in Tasks, pc[t] # "idle"
  PROVE  pc'[t] # "idle" /\ job'[t] = job[t]
<1> USE DEF Inv, TypeOK, Goto
<1>1. ASSUME NEW r \in Releases, Register(r) \/ ImageQa(r) \/ Prune(r)
      PROVE  UNCHANGED <<pc, job>>
  BY <1>1 DEF Register, ImageQa, Prune, locals
<1>2. ASSUME NEW u \in Tasks, CreateCluster(u) \/ AskForExisting(u)
      PROVE  pc'[t] # "idle" /\ job'[t] = job[t]
  BY <1>2 DEF CreateCluster, AskForExisting
<1>3. ASSUME NEW u \in Tasks, TaskStep(u)
      PROVE  pc'[t] # "idle" /\ job'[t] = job[t]
  BY <1>3 DEF TaskStep, RecordCluster, ReadCluster, MarkCluster, StartScript,
     ScriptActs, ScriptEnds, ScriptFails, ReadAddress, Settle, SettleFailed,
     Forget, PickRelease, RunClusterQa, ReadReport, FoldVerdict, locals
<1>4. CASE Crash
  BY <1>4 DEF Crash, locals
<1>5. CASE UNCHANGED vars
  BY <1>5 DEF vars, locals
<1> QED
  BY <1>1, <1>2, <1>3, <1>4, <1>5 DEF Next

LEMMA TwiceStays == Inv /\ [Next]_vars /\ ProvisionedTwice => ProvisionedTwice'
<1> SUFFICES ASSUME Inv, [Next]_vars, NEW t \in Tasks, NEW u \in Tasks,
                    t # u, NameOf[t] = NameOf[u],
                    \A v \in {t, u} : job[v] = "provision" /\ pc[v] # "idle"
             PROVE  ProvisionedTwice'
  BY DEF ProvisionedTwice
<1>1. \A v \in {t, u} : job'[v] = "provision" /\ pc'[v] # "idle"
  BY ProvisionStays
<1> QED
  BY <1>1 DEF ProvisionedTwice

(* What a step does not bring up was known before. *)
LEMMA NothingNew ==
  ASSUME Inv, Deserved, [Next]_vars,
         \A n \in Names, r \in Releases : Known(n, r)' => Known(n, r)
  PROVE  OneRelease' /\ FromProvision'
<1>1. OneRelease'
  BY DEF Deserved, OneRelease
<1>2. FromProvision'
  BY ProvisionStays DEF Deserved, FromProvision
<1> QED
  BY <1>1, <1>2

LEMMA SetPhaseRelease ==
  ASSUME Inv, NEW n \in Names, NEW ph, SetPhase(n, ph)
  PROVE  \A x \in Names : cluster'[x].release = cluster[x].release
<1>1. cluster \in [Names -> [phase : Phases, release : Releases \cup {NoRelease}]]
  BY DEF Inv, TypeOK
<1>2. CASE Exists(n)
  <2>1. cluster' = [cluster EXCEPT ![n] = [cluster[n] EXCEPT !.phase = ph]]
    BY <1>2 DEF SetPhase
  <2>2. [cluster[n] EXCEPT !.phase = ph].release = cluster[n].release
    BY <1>1
  <2> QED
    BY <1>1, <2>1, <2>2
<1>3. CASE ~Exists(n)
  BY <1>3 DEF SetPhase
<1> QED
  BY <1>2, <1>3

LEMMA KnownNext ==
  ASSUME Inv, Deserved, [Next]_vars, ~ProvisionedTwice'
  PROVE  OneRelease' /\ FromProvision'
<1> USE NameAssumption DEF Inv, TypeOK, Goto
<1> DEFINE Old == \A n \in Names, r \in Releases : Known(n, r)' => Known(n, r)
<1>1. ASSUME NEW t \in Tasks, CreateCluster(t) PROVE OneRelease' /\ FromProvision'
  <2> DEFINE m == NameOf[t]
  <2>1. /\ pc[t] = "idle" /\ pc' = [pc EXCEPT ![t] = "asked"]
        /\ job' = [job EXCEPT ![t] = "provision"]
        /\ \E r \in Releases : rel' = [rel EXCEPT ![t] = r]
        /\ UNCHANGED <<cluster, vm>>
    BY <1>1 DEF CreateCluster, world
  <2>2. ASSUME NEW u \in Tasks, NameOf[u] = m, job[u] = "provision", pc[u] # "idle"
        PROVE  FALSE
    <3>1. u # t /\ job'[u] = "provision" /\ pc'[u] # "idle"
      BY <2>1, <2>2, ProvisionStays
    <3>2. job'[t] = "provision" /\ pc'[t] # "idle"
      BY <2>1
    <3> QED
      BY <2>2, <3>1, <3>2 DEF ProvisionedTwice
  <2>3. \A r \in Releases : ~Known(m, r)
    BY <2>2 DEF Deserved, FromProvision
  <2>4. \A r \in Releases : Known(m, r)' => r = rel'[t]
    BY <2>1, <2>3 DEF Known
  <2>5. \A n \in Names \ {m}, r \in Releases : Known(n, r)' => Known(n, r)
    BY <2>1 DEF Known
  <2>6. OneRelease'
    BY <2>4, <2>5 DEF Deserved, OneRelease
  <2>7. FromProvision'
    <3> SUFFICES ASSUME NEW n \in Names, NEW r \in Releases, Known(n, r)'
                 PROVE  \E u \in Tasks : NameOf[u] = n /\ job'[u] = "provision"
                                           /\ pc'[u] # "idle"
      BY DEF FromProvision
    <3>1. CASE n = m
      BY <2>1, <3>1
    <3>2. CASE n # m
      BY <2>5, <3>2, ProvisionStays DEF Deserved, FromProvision
    <3> QED
      BY <3>1, <3>2
  <2> QED
    BY <2>6, <2>7
<1>2. ASSUME NEW r \in Releases, Register(r) \/ ImageQa(r) \/ Prune(r) PROVE Old
  <2>1. UNCHANGED <<cluster, vm, rel>>
    BY <1>2 DEF Register, ImageQa, Prune, world, locals
  <2> QED
    BY <2>1 DEF Known
<1>3. ASSUME NEW t \in Tasks, AskForExisting(t) PROVE Old
  BY <1>3 DEF AskForExisting, world, Known
<1>4. ASSUME NEW t \in Tasks, RecordCluster(t) PROVE Old
  BY <1>4 DEF RecordCluster, world, locals, Known
<1>5. ASSUME NEW t \in Tasks, ReadCluster(t) PROVE Old
  <2>1. UNCHANGED <<cluster, vm>>
        /\ \A u \in Tasks : rel'[u] = rel[u]
              \/ (u = t /\ rel'[u] = cluster[NameOf[t]].release)
    BY <1>5 DEF ReadCluster, world
  <2> QED
    BY <2>1 DEF Known
<1>6. ASSUME NEW t \in Tasks, MarkCluster(t) \/ Settle(t) \/ SettleFailed(t)
      PROVE  Old
  <2>1. UNCHANGED <<vm, rel>>
        /\ \A n \in Names : cluster'[n].release = cluster[n].release
    BY <1>6, SetPhaseRelease DEF MarkCluster, Settle, SettleFailed, world, locals
  <2> QED
    BY <2>1 DEF Known
<1>7. ASSUME NEW t \in Tasks, ScriptActs(t) PROVE Old
  <2>1. UNCHANGED <<cluster, rel>>
        /\ \A n \in Names : vm'[n] = vm[n] \/ vm'[n] = NoRelease
                              \/ (n = NameOf[t] /\ vm'[n] = rel[t])
    BY <1>7 DEF ScriptActs, locals
  <2> QED
    BY <2>1 DEF Known
<1>8. ASSUME NEW t \in Tasks, Forget(t) PROVE Old
  <2>1. UNCHANGED <<vm, rel>>
        /\ \A n \in Names : cluster'[n].release \in {cluster[n].release, NoRelease}
    BY <1>8 DEF Forget, world, locals, NoRecord
  <2> QED
    BY <2>1 DEF Known
<1>9. ASSUME NEW t \in Tasks, PickRelease(t) PROVE Old
  <2>1. UNCHANGED <<cluster, vm>>
        /\ \A u \in Tasks : rel'[u] = rel[u]
              \/ (u = t /\ rel'[u] = cluster[NameOf[t]].release)
    BY <1>9 DEF PickRelease, world
  <2> QED
    BY <2>1 DEF Known
<1>10. ASSUME NEW t \in Tasks,
              StartScript(t) \/ ScriptEnds(t) \/ ScriptFails(t) \/ ReadAddress(t)
                \/ RunClusterQa(t) \/ ReadReport(t) \/ FoldVerdict(t)
       PROVE  Old
  BY <1>10 DEF StartScript, ScriptEnds, ScriptFails, ReadAddress, RunClusterQa,
     ReadReport, FoldVerdict, world, locals, Known
<1>11. ASSUME Crash \/ UNCHANGED vars PROVE Old
  <2>1. UNCHANGED <<cluster, vm, rel>>
    BY <1>11 DEF Crash, vars, world, locals
  <2> QED
    BY <2>1 DEF Known
<1>12. CASE Old
  BY <1>12, NothingNew
<1> QED
  BY <1>1, <1>2, <1>3, <1>4, <1>5, <1>6, <1>7, <1>8, <1>9, <1>10, <1>11, <1>12
     DEF Next, TaskStep

LEMMA ReportedNext ==
  ASSUME Inv, Deserved, [Next]_vars
  PROVE  Reported'
<1> USE NameAssumption, NoReleaseAssumption
        DEF Inv, TypeOK, Goto, Deserved, Reported, gate, world, locals
<1>1. ASSUME NEW r \in Releases, Register(r) \/ ImageQa(r) \/ Prune(r)
      PROVE  Reported'
  BY <1>1 DEF Register, ImageQa, Prune
<1>2. ASSUME NEW t \in Tasks, CreateCluster(t) \/ AskForExisting(t)
                              \/ ReadCluster(t) \/ PickRelease(t)
      PROVE  Reported'
  BY <1>2 DEF CreateCluster, AskForExisting, ReadCluster, PickRelease
<1>3. ASSUME NEW t \in Tasks,
             RecordCluster(t) \/ MarkCluster(t) \/ StartScript(t) \/ ScriptActs(t)
               \/ ScriptEnds(t) \/ ScriptFails(t) \/ ReadAddress(t) \/ Settle(t)
               \/ SettleFailed(t) \/ Forget(t)
      PROVE  Reported'
  BY <1>3 DEF RecordCluster, MarkCluster, StartScript, ScriptActs, ScriptEnds,
     ScriptFails, ReadAddress, Settle, SettleFailed, Forget
(* The runner reports on what the machine runs, which is what the name's   *)
(* release is.                                                             *)
<1>4. ASSUME NEW t \in Tasks, RunClusterQa(t) PROVE Reported'
  <2>1. vm[NameOf[t]] # NoRelease => rel[t] \in {NoRelease, vm[NameOf[t]]}
    BY DEF OneRelease, Known
  <2>2. \A u \in Tasks : pc'[u] = "fold" => pc[u] = "fold"
    BY <1>4 DEF RunClusterQa
  <2>3. UNCHANGED <<tombstoned, rel, verdict>> /\ faulty \subseteq faulty'
    BY <1>4 DEF RunClusterQa
  <2>4. \A r \in Releases : report'[r] = "block" => r \in faulty'
    BY <1>4, <2>1 DEF RunClusterQa, ReportFile, Verdicts
  <2> QED
    BY <2>2, <2>3, <2>4
<1>5. ASSUME NEW t \in Tasks, ReadReport(t) PROVE Reported'
  BY <1>5 DEF ReadReport, ReportFile
<1>6. ASSUME NEW t \in Tasks, FoldVerdict(t) PROVE Reported'
  BY <1>6 DEF FoldVerdict
<1>7. CASE Crash \/ UNCHANGED vars
  BY <1>7 DEF Crash, vars
<1> QED
  BY <1>1, <1>2, <1>3, <1>4, <1>5, <1>6, <1>7 DEF Next, TaskStep

(* Unless a name is provisioned twice, only a release that failed a        *)
(* blocking test is ever barred from being provisioned.                    *)
THEOREM TombstonesDeserved == Spec => []TombstoneDeserved
<1>1. DeservedInv /\ [Next]_vars => DeservedInv'
  BY InvNext, TwiceStays, KnownNext, ReportedNext DEF DeservedInv, Deserved
<1>2. DeservedInv => TombstoneDeserved
  BY DEF DeservedInv, Deserved, Reported, TombstoneDeserved
<1> QED
  BY <1>1, <1>2, DeservedInit, PTL DEF Spec

=============================================================================
