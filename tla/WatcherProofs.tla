--------------------------- MODULE WatcherProofs ---------------------------
(***************************************************************************)
(* Theorems about Watcher, for all components, flavors and numbers of      *)
(* builds, commits and events: the type invariant, and that what last_seen *)
(* has of an asset is released, or somebody's job, or was lost in one of   *)
(* two ways (ChangeOwned).                                                 *)
(***************************************************************************)
EXTENDS Watcher, TLAPS

-----------------------------------------------------------------------------
(* The type invariant                                                      *)

LEMMA InitType == Init => TypeOK
BY PartsAssumption, NoFlavorAssumption DEF Init, TypeOK, Nothing

TasksOK ==
  /\ pc \in [Tasks -> {"idle", "reading", "noting"}]
  /\ flavor \in [Tasks -> Flavors \cup {NoFlavor}]
  /\ \A t \in Tasks : pc[t] = "idle" <=> flavor[t] = NoFlavor
  /\ unread \in [Tasks -> SUBSET Components]
  /\ shas \in [Tasks -> [Components -> Nat]]

LEMMA BeginType ==
  ASSUME TypeOK, NEW t \in Tasks, NEW f \in Flavors, Begin(t, f)
  PROVE  TasksOK'
BY PartsAssumption, NoFlavorAssumption DEF Begin, TypeOK, TasksOK

LEMMA EndType ==
  ASSUME TypeOK, NEW t \in Tasks, End(t)
  PROVE  TasksOK'
BY DEF End, TypeOK, TasksOK, Nothing

LEMMA TypeStep == TypeOK /\ [Next]_vars => TypeOK'
<1> SUFFICES ASSUME TypeOK, [Next]_vars PROVE TypeOK'
  OBVIOUS
<1> USE DEF watch, task, history
<1>1. ASSUME NEW c \in Components, Commit(c) PROVE TypeOK'
  <2>1. head' \in [Components -> Nat]
    BY <1>1 DEF TypeOK, Commit
  <2> QED
    BY <1>1, <2>1 DEF TypeOK, Commit
<1>2. ASSUME NEW f \in Flavors, Request(f) PROVE TypeOK'
  <2>1. PICK t \in Tasks : Begin(t, f)
    BY <1>2 DEF Request
  <2>2. TasksOK'
    BY <2>1, BeginType
  <2>3. UNCHANGED <<head, seen, released, stage, unpolled, found, changed,
                    unasked, dropped, preempted>> /\ events' \in Nat
    BY <1>2 DEF Request, Event, TypeOK
  <2> QED
    BY <2>2, <2>3 DEF TypeOK, TasksOK
<1>3. CASE Wake
  BY <1>3 DEF TypeOK, Wake
<1>4. CASE Compare \/ Record
  BY <1>4 DEF TypeOK, Compare, Record
<1>5. CASE EndRound
  BY <1>5 DEF TypeOK, EndRound
<1>6. CASE EndSpawn
  BY <1>6 DEF TypeOK, EndSpawn
<1>7. ASSUME NEW c \in Components, Poll(c) \/ PollFails(c) PROVE TypeOK'
  <2>1. CASE Poll(c)
    <3>1. found' \in Components \X Nat /\ stage' = "comparing"
      BY <2>1 DEF Poll, HeadSha, TypeOK
    <3> QED
      BY <2>1, <3>1 DEF Poll, TypeOK
  <2>2. CASE PollFails(c)
    BY <2>2 DEF TypeOK, PollFails, Event
  <2> QED
    BY <1>7, <2>1, <2>2
<1>8. ASSUME NEW f \in Flavors, Spawn(f) PROVE TypeOK'
  <2>1. CASE PartsOf[f] \cap changed = {}
    BY <1>8, <2>1 DEF TypeOK, Spawn
  <2>2. CASE PartsOf[f] \cap changed # {}
    <3>1. PICK t \in Tasks : Begin(t, f)
      BY <1>8, <2>2 DEF Spawn
    <3>2. TasksOK'
      BY <3>1, BeginType
    <3> QED
      BY <1>8, <2>2, <3>2 DEF Spawn, TypeOK, TasksOK
  <2> QED
    BY <2>1, <2>2
<1>9. ASSUME NEW t \in Tasks, Register(t) PROVE TypeOK'
  <2>1. pc[t] = "reading" /\ flavor[t] \in Flavors
    BY <1>9 DEF Register, TypeOK
  <2>2. End(t) /\ dropped' \subseteq dropped
    BY <1>9 DEF Register
  <2>3. Read(t) \subseteq Components
    BY DEF Read
  <2>4. released' \in [Flavors -> [Components -> Nat]]
    BY <1>9, <2>1 DEF Register, TypeOK
  <2>5. seen' \in [Components -> Nat]
    BY <1>9, <2>1 DEF Register, TypeOK
  <2>6. preempted' \subseteq Flavors \X Components
    BY <1>9 DEF Register, Assets, TypeOK
  <2>7. TasksOK'
    BY <2>2, EndType
  <2>8. UNCHANGED <<head, stage, unpolled, found, changed, unasked, events>>
    BY <1>9 DEF Register
  <2> QED
    BY <2>2, <2>4, <2>5, <2>6, <2>7, <2>8 DEF TypeOK, TasksOK
<1>10. ASSUME NEW t \in Tasks, BuildFails(t) PROVE TypeOK'
  <2>1. pc[t] = "reading" /\ flavor[t] \in Flavors
    BY <1>10 DEF BuildFails, TypeOK
  <2>2. Pairs(flavor[t], PartsOf[flavor[t]]) \subseteq Flavors \X Components
    BY <2>1, PartsAssumption DEF Pairs
  <2>3. TasksOK'
    BY <1>10, EndType DEF BuildFails
  <2>4. UNCHANGED <<head, seen, released, stage, unpolled, found, changed,
                    unasked, preempted>> /\ events' \in Nat
    BY <1>10 DEF BuildFails, Event, TypeOK
  <2>5. dropped' \subseteq Flavors \X Components
    BY <1>10, <2>2 DEF BuildFails, TypeOK
  <2> QED
    BY <2>3, <2>4, <2>5 DEF TypeOK, TasksOK
<1>11. ASSUME NEW t \in Tasks, NEW c \in Components, ReadHead(t, c)
       PROVE  TypeOK'
  BY <1>11 DEF TypeOK, ReadHead, HeadSha
<1>12. ASSUME NEW t \in Tasks, NEW c \in Components, ReadHeadFails(t, c)
       PROVE  TypeOK'
  <2>1. flavor[t] \in Flavors
    BY <1>12 DEF ReadHeadFails, TypeOK
  <2>2. dropped' \subseteq Flavors \X Components
    BY <1>12, <2>1 DEF ReadHeadFails, TypeOK
  <2>3. unread' \in [Tasks -> SUBSET Components]
    BY <1>12 DEF ReadHeadFails, TypeOK
  <2>4. UNCHANGED <<head, seen, released, stage, unpolled, found, changed,
                    unasked, pc, flavor, shas, preempted>>
        /\ events' \in Nat
    BY <1>12 DEF ReadHeadFails, Event, TypeOK
  <2> QED
    BY <2>2, <2>3, <2>4 DEF TypeOK
<1>13. ASSUME NEW t \in Tasks, NEW c \in Components, ReadNotes(t, c)
       PROVE  TypeOK'
  BY <1>13 DEF TypeOK, ReadNotes
<1>14. CASE Crash
  <2>1. ASSUME NEW t \in Tasks, pc[t] # "idle"
        PROVE  Pairs(flavor[t], PartsOf[flavor[t]]) \subseteq Flavors \X Components
    BY <2>1, PartsAssumption DEF Pairs, TypeOK
  <2>2. dropped' \subseteq Flavors \X Components
    BY <1>14, <2>1 DEF Crash, Assets, TypeOK
  <2> QED
    BY <1>14, <2>2 DEF Crash, Event, TypeOK, Nothing
<1>15. CASE UNCHANGED vars
  BY <1>15 DEF TypeOK, vars
<1> QED
  BY <1>1, <1>2, <1>3, <1>4, <1>5, <1>6, <1>7, <1>8, <1>9, <1>10, <1>11,
     <1>12, <1>13, <1>14, <1>15 DEF Next, WatcherStep, TaskStep

(* The type invariant holds in every reachable state of the watcher and    *)
(* its builds (jobs.rs `watcher`, `build`).                                *)
THEOREM TypeCorrect == Spec => []TypeOK
BY InitType, TypeStep, PTL DEF Spec

-----------------------------------------------------------------------------
(* What last_seen has is somebody's job                                    *)

(* Shas are of commits that were made, and an idle task holds none.        *)
Known ==
  /\ \A c \in Components : seen[c] <= head[c]
  /\ stage \in {"comparing", "recording"} => found[2] <= head[found[1]]
  /\ \A t \in Tasks, c \in Components : shas[t][c] <= head[c]
  /\ \A t \in Tasks : pc[t] = "idle" => \A c \in Components : shas[t][c] = 0

(* The disjuncts of ChangeOwned for one flavor and one asset. *)
Owned(f, c) ==
  \/ released[f][c] >= seen[c]
  \/ Owed(f, c)
  \/ \E t \in Tasks : Coming(t, f, c)
  \/ <<f, c>> \in dropped \cup preempted

OwnInv == TypeOK /\ Known /\ ChangeOwned

LEMMA KnownStep == TypeOK /\ TypeOK' /\ Known /\ [Next]_vars => Known'
<1> SUFFICES ASSUME TypeOK, TypeOK', Known, [Next]_vars PROVE Known'
  OBVIOUS
<1> USE DEF watch, task, history
<1>1. ASSUME NEW c \in Components, Commit(c) PROVE Known'
  <2>1. \A x \in Components : head[x] <= head'[x]
    BY <1>1 DEF Commit, TypeOK
  <2> QED
    BY <1>1, <2>1 DEF Commit, TypeOK, Known
<1>2. ASSUME NEW t \in Tasks, NEW f \in Flavors, Begin(t, f),
             UNCHANGED <<head, seen, stage, found>>
      PROVE  Known'
  BY <1>2 DEF Begin, TypeOK, Known
<1>3. CASE Wake \/ EndRound \/ EndSpawn
  BY <1>3 DEF Wake, EndRound, EndSpawn, Known
<1>4. CASE Compare \/ Record
  <2>1. CASE Compare
    BY <2>1 DEF Compare, Known
  <2>2. CASE Record
    <3>1. found[1] \in Components /\ found[2] \in Nat
      BY <2>2 DEF Record, TypeOK
    <3>2. \A c \in Components : seen'[c] <= head[c]
      BY <2>2, <3>1 DEF Record, TypeOK, Known
    <3> QED
      BY <2>2, <3>2 DEF Record, Known
  <2> QED
    BY <1>4, <2>1, <2>2
<1>5. ASSUME NEW c \in Components, Poll(c) \/ PollFails(c) PROVE Known'
  BY <1>5 DEF Poll, PollFails, TypeOK, Known, HeadSha
<1>6. ASSUME NEW t \in Tasks, Register(t) PROVE Known'
  <2>1. End(t) /\ UNCHANGED <<head, stage, found>>
    BY <1>6 DEF Register
  <2>2. \A c \in Components : seen'[c] \in {seen[c], shas[t][c]}
    BY <1>6 DEF Register
  <2>3. \A c \in Components : seen'[c] <= head'[c]
    BY <2>1, <2>2 DEF Known
  <2> QED
    BY <2>1, <2>3 DEF End, TypeOK, Known, Nothing
<1>7. ASSUME NEW t \in Tasks, BuildFails(t) PROVE Known'
  BY <1>7 DEF BuildFails, End, TypeOK, Known, Nothing
<1>8. ASSUME NEW t \in Tasks, NEW c \in Components, ReadHead(t, c)
      PROVE  Known'
  BY <1>8 DEF ReadHead, TypeOK, Known, HeadSha
<1>9. ASSUME NEW t \in Tasks, NEW c \in Components,
             ReadHeadFails(t, c) \/ ReadNotes(t, c)
      PROVE  Known'
  BY <1>9 DEF ReadHeadFails, ReadNotes, TypeOK, Known
<1>10. CASE Crash
  BY <1>10 DEF Crash, TypeOK, Known, Nothing
<1>11. CASE UNCHANGED vars
  BY <1>11 DEF vars, Known
<1>12. ASSUME NEW f \in Flavors, Request(f) PROVE Known'
  BY <1>12, <1>2 DEF Request
<1>13. ASSUME NEW f \in Flavors, Spawn(f) PROVE Known'
  <2>1. CASE UNCHANGED task
    BY <1>13, <2>1 DEF Spawn, Known
  <2>2. CASE \E t \in Tasks : Begin(t, f)
    BY <1>13, <2>2, <1>2 DEF Spawn
  <2> QED
    BY <1>13, <2>1, <2>2 DEF Spawn
<1> QED
  BY <1>1, <1>3, <1>4, <1>5, <1>6, <1>7, <1>8, <1>9, <1>10, <1>11, <1>12,
     <1>13 DEF Next, WatcherStep, TaskStep

(* A task that begins on a flavor takes charge of all its assets, and it   *)
(* was in charge of none.                                                  *)
LEMMA BeginOwns ==
  ASSUME TypeOK, Known, NEW t \in Tasks, NEW g \in Flavors, Begin(t, g),
         UNCHANGED seen, NEW f \in Flavors, NEW c \in PartsOf[f]
  PROVE  /\ f = g => Coming(t, f, c)'
         /\ \A u \in Tasks : Coming(u, f, c) => Coming(u, f, c)'
<1>1. c \in Components
  BY PartsAssumption
<1>2. f = g => Coming(t, f, c)'
  BY <1>1 DEF Begin, Coming, TypeOK, Known
<1>3. ASSUME NEW u \in Tasks, Coming(u, f, c) PROVE Coming(u, f, c)'
  <2>1. u # t
    BY <1>3 DEF Begin, Coming
  <2> QED
    BY <1>3, <2>1 DEF Begin, Coming, TypeOK
<1> QED
  BY <1>2, <1>3

(* A build that succeeds brings its own flavor what it writes to           *)
(* last_seen, and takes nothing from another flavor but the watcher's      *)
(* notice.                                                                 *)
LEMMA RegisterOwned ==
  ASSUME TypeOK, NEW t \in Tasks, Register(t),
         NEW f \in Flavors, NEW c \in Components, c \in PartsOf[f], Owned(f, c)
  PROVE  Owned(f, c)'
<1> DEFINE g == flavor[t]
<1>1. /\ pc[t] # "idle" /\ g \in Flavors /\ unread[t] = {}
      /\ End(t)
      /\ UNCHANGED <<stage, changed, unasked>>
  BY DEF Register, TypeOK, watch
<1>2. c \in Read(t) <=> shas[t][c] # 0
  BY DEF Read
<1>3. seen'[c] = IF shas[t][c] # 0 THEN shas[t][c] ELSE seen[c]
  BY <1>2 DEF Register
<1>4. /\ f = g => released'[f][c] = IF shas[t][c] > released[f][c]
                                      THEN shas[t][c] ELSE released[f][c]
      /\ f # g => released'[f][c] = released[f][c]
  BY <1>1 DEF Register, TypeOK
<1>5. shas[t][c] \in Nat /\ released[f][c] \in Nat /\ seen[c] \in Nat
  BY DEF TypeOK
<1>6. Owed(f, c) => Owed(f, c)'
  BY <1>1 DEF Owed
<1>7. ASSUME NEW u \in Tasks, u # t, Coming(u, f, c), seen'[c] <= seen[c]
      PROVE  Coming(u, f, c)'
  <2>1. /\ pc'[u] = pc[u] /\ flavor'[u] = flavor[u]
        /\ unread'[u] = unread[u] /\ shas'[u] = shas[u]
    BY <1>1, <1>7 DEF End, TypeOK
  <2>2. shas[u][c] \in Nat /\ seen'[c] \in Nat
    BY <1>3, <1>5 DEF TypeOK
  <2> QED
    BY <1>5, <1>7, <2>1, <2>2 DEF Coming
<1>8. <<f, c>> \in dropped \cup preempted /\ (f # g \/ shas[t][c] = 0)
        => <<f, c>> \in dropped' \cup preempted'
  BY <1>2 DEF Register, Pairs
<1>9. CASE f = g /\ shas[t][c] # 0
  BY <1>3, <1>4, <1>5, <1>9 DEF Owned
<1>10. CASE f # g /\ shas[t][c] > seen[c]
  <2>1. c \in Read(t)
    BY <1>2, <1>5, <1>10
  <2>2. <<f, c>> \in preempted'
    BY <1>10, <2>1 DEF Register, Assets
  <2> QED
    BY <2>2 DEF Owned
<1>11. CASE /\ f # g \/ shas[t][c] = 0
            /\ shas[t][c] <= seen[c]
  <2>1. seen'[c] <= seen[c] /\ released'[f][c] >= released[f][c]
    BY <1>3, <1>4, <1>5, <1>11
  <2>2. released[f][c] >= seen[c] => released'[f][c] >= seen'[c]
    BY <1>3, <1>4, <1>5, <2>1
  <2>3. Coming(t, f, c) => FALSE
    BY <1>1, <1>11 DEF Coming
  <2> QED
    BY <1>6, <1>7, <1>8, <1>11, <2>1, <2>2, <2>3 DEF Owned
<1> QED
  BY <1>5, <1>9, <1>10, <1>11

LEMMA OwnedStep ==
  ASSUME TypeOK, TypeOK', Known, ChangeOwned, Next,
         NEW f \in Flavors, NEW c \in PartsOf[f]
  PROVE  Owned(f, c)'
<1> USE DEF watch, task, history
<1>1. c \in Components /\ Owned(f, c)
  BY PartsAssumption DEF ChangeOwned, Owned
<1>2. ASSUME NEW d \in Components, Commit(d) PROVE Owned(f, c)'
  BY <1>1, <1>2 DEF Commit, Owned, Owed, Coming
<1>3. ASSUME NEW g \in Flavors, Request(g) PROVE Owned(f, c)'
  <2>1. PICK t \in Tasks : Begin(t, g)
    BY <1>3 DEF Request
  <2>2. UNCHANGED <<seen, released, stage, changed, unasked, dropped, preempted>>
    BY <1>3 DEF Request
  <2>3. (\E u \in Tasks : Coming(u, f, c)) => \E u \in Tasks : Coming(u, f, c)'
    BY <2>1, <2>2, BeginOwns
  <2> QED
    BY <1>1, <2>2, <2>3 DEF Owned, Owed
<1>4. CASE Wake \/ Compare \/ EndRound \/ EndSpawn
  BY <1>1, <1>4 DEF Wake, Compare, EndRound, EndSpawn, Owned, Owed, Coming, TypeOK
<1>5. CASE Record
  <2>1. CASE c = found[1]
    BY <1>5, <2>1 DEF Record, Owned, Owed
  <2>2. CASE c # found[1]
    <3>1. seen'[c] = seen[c]
      BY <1>1, <1>5, <2>2 DEF Record, TypeOK
    <3>2. Owed(f, c) => Owed(f, c)'
      BY <1>5 DEF Record, Owed
    <3>3. \A t \in Tasks : Coming(t, f, c) => Coming(t, f, c)'
      BY <1>5, <3>1 DEF Record, Coming
    <3> QED
      BY <1>1, <1>5, <3>1, <3>2, <3>3 DEF Record, Owned
  <2> QED
    BY <2>1, <2>2
<1>6. ASSUME NEW d \in Components, Poll(d) \/ PollFails(d)
      PROVE  Owned(f, c)'
  BY <1>1, <1>6 DEF Poll, PollFails, Owned, Owed, Coming
<1>7. ASSUME NEW g \in Flavors, Spawn(g) PROVE Owned(f, c)'
  <2>1. UNCHANGED <<seen, released, stage, changed, dropped, preempted>>
    BY <1>7 DEF Spawn
  <2>2. Owed(f, c) /\ f # g => Owed(f, c)'
    BY <1>7 DEF Spawn, Owed
  <2>3. CASE PartsOf[g] \cap changed = {}
    <3>1. Owed(f, c) => f # g
      BY <2>3 DEF Owed
    <3>2. \A t \in Tasks : Coming(t, f, c) => Coming(t, f, c)'
      BY <1>7, <2>1, <2>3 DEF Spawn, Coming
    <3> QED
      BY <1>1, <2>1, <2>2, <3>1, <3>2 DEF Owned
  <2>4. CASE PartsOf[g] \cap changed # {}
    <3>1. PICK t \in Tasks : Begin(t, g)
      BY <1>7, <2>4 DEF Spawn
    <3>2. /\ f = g => Coming(t, f, c)'
          /\ \A u \in Tasks : Coming(u, f, c) => Coming(u, f, c)'
      BY <2>1, <3>1, BeginOwns
    <3> QED
      BY <1>1, <2>1, <2>2, <3>2 DEF Owned
  <2> QED
    BY <2>3, <2>4
<1>8. ASSUME NEW t \in Tasks, NEW d \in Components, ReadHead(t, d)
      PROVE  Owned(f, c)'
  <2>1. UNCHANGED <<seen, released, stage, changed, unasked, dropped, preempted>>
    BY <1>8 DEF ReadHead
  <2>2. ASSUME NEW u \in Tasks, Coming(u, f, c), u # t \/ c # d
        PROVE  Coming(u, f, c)'
    BY <1>1, <1>8, <2>2 DEF ReadHead, Coming, TypeOK
  <2>3. ASSUME Coming(t, f, c), c = d
        PROVE  Owned(f, c)'
    <3>1. shas'[t][c] = head[c] /\ seen[c] <= head[c]
      BY <1>1, <1>8, <2>3 DEF ReadHead, TypeOK, Known, HeadSha
    <3>2. CASE head[c] = 0
      BY <1>1, <2>1, <3>1, <3>2 DEF Owned, TypeOK
    <3>3. CASE head[c] # 0
      <4>1. pc'[t] # "idle" /\ flavor'[t] = f
        BY <1>8, <2>3 DEF ReadHead, Coming, TypeOK
      <4>2. shas'[t][c] >= seen'[c] /\ shas'[t][c] # 0
        BY <1>1, <2>1, <3>1, <3>3 DEF TypeOK
      <4> QED
        BY <4>1, <4>2 DEF Owned, Coming
    <3> QED
      BY <3>2, <3>3
  <2> QED
    BY <1>1, <2>1, <2>2, <2>3 DEF Owned, Owed
<1>9. ASSUME NEW t \in Tasks, NEW d \in Components, ReadHeadFails(t, d)
      PROVE  Owned(f, c)'
  <2>1. UNCHANGED <<seen, released, stage, changed, unasked, preempted>>
        /\ dropped' = dropped \cup {<<flavor[t], d>>}
    BY <1>9 DEF ReadHeadFails
  <2>2. ASSUME NEW u \in Tasks, Coming(u, f, c), u # t \/ c # d
        PROVE  Coming(u, f, c)'
    BY <1>1, <1>9, <2>2 DEF ReadHeadFails, Coming, TypeOK
  <2>3. ASSUME Coming(t, f, c), c = d
        PROVE  Owned(f, c)'
    BY <2>1, <2>3 DEF Owned, Coming
  <2> QED
    BY <1>1, <2>1, <2>2, <2>3 DEF Owned, Owed
<1>10. ASSUME NEW t \in Tasks, NEW d \in Components, ReadNotes(t, d)
       PROVE  Owned(f, c)'
  <2>1. UNCHANGED <<seen, released, stage, changed, unasked, dropped, preempted>>
    BY <1>10 DEF ReadNotes
  <2>2. ASSUME NEW u \in Tasks, Coming(u, f, c) PROVE Coming(u, f, c)'
    BY <1>1, <1>10, <2>2 DEF ReadNotes, Coming, TypeOK
  <2> QED
    BY <1>1, <2>1, <2>2 DEF Owned, Owed
<1>11. ASSUME NEW t \in Tasks, Register(t) PROVE Owned(f, c)'
  BY <1>1, <1>11, RegisterOwned DEF Owned
<1>12. ASSUME NEW t \in Tasks, BuildFails(t) PROVE Owned(f, c)'
  <2>1. UNCHANGED <<seen, released, stage, changed, unasked, preempted>>
        /\ dropped' = dropped \cup Pairs(flavor[t], PartsOf[flavor[t]])
    BY <1>12 DEF BuildFails
  <2>2. ASSUME NEW u \in Tasks, Coming(u, f, c), u # t
        PROVE  Coming(u, f, c)'
    BY <1>12, <2>2 DEF BuildFails, End, Coming, TypeOK
  <2>3. ASSUME Coming(t, f, c) PROVE Owned(f, c)'
    BY <2>1, <2>3 DEF Owned, Coming, Pairs
  <2> QED
    BY <1>1, <2>1, <2>2, <2>3 DEF Owned, Owed
<1>13. CASE Crash
  <2>1. UNCHANGED <<seen, released, preempted>> /\ dropped \subseteq dropped'
    BY <1>13 DEF Crash
  <2>2. Owed(f, c) => <<f, c>> \in dropped'
    BY <1>1, <1>13 DEF Crash, Assets
  <2>3. ASSUME NEW t \in Tasks, Coming(t, f, c) PROVE <<f, c>> \in dropped'
    BY <1>13, <2>3 DEF Crash, Coming, Pairs
  <2> QED
    BY <1>1, <2>1, <2>2, <2>3 DEF Owned
<1> QED
  BY <1>2, <1>3, <1>4, <1>5, <1>6, <1>7, <1>8, <1>9, <1>10, <1>11, <1>12,
     <1>13 DEF Next, WatcherStep, TaskStep

(* What last_seen says was seen of an asset is, for each flavor with the   *)
(* asset, released, or the job of the watcher's round or of a running      *)
(* build, unless a mishap or another flavor's build took the job away      *)
(* (jobs.rs `watcher` and `build`, main.rs `compute_release_notes`).       *)
THEOREM ChangeHasOwner == Spec => []ChangeOwned
<1>1. Init => OwnInv
  <2> SUFFICES ASSUME Init PROVE OwnInv
    OBVIOUS
  <2>1. TypeOK
    BY InitType
  <2>2. Known
    BY DEF Init, Known, Nothing
  <2>3. ASSUME NEW f \in Flavors, NEW c \in PartsOf[f] PROVE Owned(f, c)
    <3>1. c \in Components
      BY PartsAssumption
    <3>2. seen[c] = 0 /\ released[f][c] = 0
      BY <3>1 DEF Init, Nothing
    <3> QED
      BY <3>2 DEF Owned
  <2>4. ChangeOwned
    BY <2>3 DEF ChangeOwned, Owned
  <2> QED
    BY <2>1, <2>2, <2>4 DEF OwnInv
<1>2. OwnInv /\ [Next]_vars => OwnInv'
  <2> SUFFICES ASSUME OwnInv, [Next]_vars PROVE OwnInv'
    OBVIOUS
  <2>1. TypeOK' /\ Known'
    BY TypeStep, KnownStep DEF OwnInv
  <2>2. ASSUME NEW f \in Flavors, NEW c \in PartsOf[f] PROVE Owned(f, c)'
    <3>1. CASE Next
      BY <2>1, <3>1, OwnedStep DEF OwnInv
    <3>2. CASE UNCHANGED vars
      <4>1. UNCHANGED <<seen, released, stage, changed, unasked, pc, flavor,
                        unread, shas, dropped, preempted>>
        BY <3>2 DEF vars, watch, task, history
      <4>2. Owned(f, c)
        BY DEF OwnInv, ChangeOwned, Owned
      <4> QED
        BY <4>1, <4>2 DEF Owned, Owed, Coming
    <3> QED
      BY <3>1, <3>2
  <2>3. ChangeOwned'
    BY <2>2 DEF ChangeOwned, Owned
  <2> QED
    BY <2>1, <2>3 DEF OwnInv
<1>3. OwnInv => ChangeOwned
  BY DEF OwnInv
<1> QED
  BY <1>1, <1>2, <1>3, PTL DEF Spec

=============================================================================
